---- MODULE Spec2Model ----
(***************************************************************************)
(* Model of svelte-pdf-view: the page slots (PDFPageView), the viewport    *)
(* scheduler (PDFViewerCore), the document loader (PdfRenderer.loadPdf),   *)
(* the find controller, the overlay geometry (BoundingBoxLayer,            *)
(* DrawingLayer) and the pdfjs singleton.                                  *)
(*                                                                         *)
(* JavaScript is single threaded: one action of this model is one task of  *)
(* the event loop (an input event, a timer, or the settlement of a promise *)
(* of the document engine) together with every microtask it triggers.      *)
(* Scales are counted in tenths (1.0 is 10), so that DEFAULT_SCALE_DELTA   *)
(* is one unit.                                                            *)
(***************************************************************************)
EXTENDS Integers, Sequences, FiniteSets, TLC

\* ---------------------------------------------------------------- bounds
MaxPages == 2
MaxChanges == 1
MaxFails == 1
MaxStalls == 1
MaxLoads == 2
MaxFindPages == 2
MaxNexts == 3
MaxCalls == 4
MaxOrigin == 10
MaxGets == 3
MaxDestroys == 2
MaxBoxUpdates == 2
MaxTime == 300
MaxScrolls == 3
TickMs == 50
MaxPmPages == 2
MaxRequests == 2
MaxTempBoxes == 2
MaxReloads == 1
PageSide == 100

\* ------------------------------------------------------ program constants
DEFAULT_SCALE == 10
MIN_SCALE == 1
MAX_SCALE == 100
DEFAULT_SCALE_DELTA == 1
PAGES_TO_PRERENDER == 2
PAGE_MARGIN == 10
SCROLL_DEBOUNCE == 100

UNKNOWN == 0
NORMAL == 1
CHANGING == 2
FULLSCREEN == 3

INITIAL == 0
RUNNING == 1
PAUSED == 2
FINISHED == 3

\* ------------------------------------------------------------ input sets
ContainerHeight == PageSide \div 2
ScrollTops == {0, PageSide + PAGE_MARGIN}
ScaleInputs == {MAX_SCALE + 1}
InitialScales == {DEFAULT_SCALE}
InitialRotations == {0}
\* the scale prop of the host and the rotations a reload hands to the constructor
HostScales == {MIN_SCALE, DEFAULT_SCALE, MAX_SCALE, MAX_SCALE + 50}
HostRotations == {0, 90, 180, 270}
\* unscaled page sizes in points, and the rectangles drawn on them
PageSizes == {<<60, 60>>, <<60, 80>>}
OverlayScales == {DEFAULT_SCALE, 2 * DEFAULT_SCALE}
BoxOrigins == {0, MaxOrigin}
BoxSides == {4, 20}
\* the arrays of boxes the host hands to the viewer: a box is <<page, id>>
BoxInputs == {{}, {<<1, "a">>}, {<<1, "b">>, <<2, "c">>}}

NoError == "none"
CancelledName == "RenderingCancelledException"
OtherErrorName == "Error"

VARIABLES
    pdfDocument,      \* PDFViewerCore.pdfDocument: 0 (null) or the page count of the document
    pages,            \* PDFViewerCore.pages: sequence of slot ids
    slots,            \* the PDFPageView objects created by this core, by id
    currentScale,     \* PDFViewerCore.currentScale
    currentRotation,  \* PDFViewerCore.currentRotation
    renderingQueue,   \* PDFViewerCore.renderingQueue: insertion-ordered set of page indices
    isRendering,      \* PDFViewerCore.isRendering
    awaiting,         \* the draw() the processRenderingQueue loop is suspended on: <<slot, tag>> or <<>>
    lastPass,         \* range enqueued by the updateVisiblePages of this step, <<>> if none ran
    passLog,          \* the updateVisiblePages calls of this step, each with what it saw and did
    boundingBoxes,    \* PDFViewerCore.boundingBoxes
    dispatched,       \* scalechanged / rotationchanged events dispatched in this step
    scrollTimeout,    \* the debounce timer of the scroll listener is pending
    scrollTop,        \* container.scrollTop
    listening,        \* the scroll listener is attached (scrollAbortController not aborted)
    sd,               \* the setDocument call of this core: [pc, n, i]
    viewerError,      \* viewerState.error
    nChanges,         \* scale / rotation changes applied so far
    nFails,           \* raster failures delivered so far
    nStalls,          \* raster jobs that stalled so far
    loads,            \* PdfRenderer: the loadPdf calls made so far, each [pc, newViewer]
    viewers,          \* PdfRenderer: the PDFViewerCore objects created so far
    viewer,           \* PdfRenderer: the variable viewer, 0 for null
    findController,   \* PdfRenderer: the variable findController, by the viewer it serves, 0 for null
    loading,          \* viewerState.loading
    errorCalls,       \* calls of context._onerror so far
    docText,          \* the text items of each page of the document, as the engine extracts them
    textItems,        \* PDFPageView.textContentItemsStr of each page
    textDivs,         \* PDFPageView.textDivs of each page: each div is its sequence of child nodes
    query,            \* FindController.query
    highlightAll,     \* FindController.highlightAll
    allMatches,       \* FindController.allMatches
    selectedMatchIndex,   \* FindController.selectedMatchIndex
    highlightedElements,  \* FindController.highlightedElements, by span id
    matchScrollTimer, \* a timer of scrollToSelectedMatch is pending
    searchCount,      \* viewerState.searchCurrent and searchTotal
    reloads,          \* loads that replaced the find controller so far
    fEvents,          \* events dispatched on the event bus in this step
    scrolls,          \* scroll requests made in this step
    lastOp,           \* the operation of this step
    prevSel,          \* selectedMatchIndex before this step
    nexts,            \* findNext calls since the last search, -1 once another navigation came between
    startRotation,    \* the initialRotation option this core was constructed with
    turns,            \* toolbar: rotateClockwise calls minus rotateCounterClockwise calls so far
    lastCall,         \* toolbar: the call of this step and the scale before it
    nCalls,           \* toolbar: calls made so far
    pageSize,         \* overlay: <<width, height>> of the page in points, unrotated
    viewport,         \* overlay: PDFPageView.viewport, shared by the overlay layers
    box,              \* overlay: the BoundingBox handed to the BoundingBoxLayer
    boxDiv,           \* overlay: left, top, width, height of the rendered div, <<>> before
    drawnBox,         \* overlay: the DrawnBoundingBox of onBoxDrawn, <<>> if none was reported
    converted,        \* overlay: the BoundingBox of convertNormalizedBoundingBoxes, <<>> before
    stage,            \* overlay: "new", "rendered", "drawn", "converted"
    isDrawing,        \* DrawingLayer.isDrawing
    start,            \* DrawingLayer.startX, startY
    currentBox,       \* DrawingLayer.currentBox is set
    tempBoxes,        \* the temporary drawing boxes attached to the layer div
    drawMode,         \* what isDrawModeEnabled() returns
    mouse,            \* the mouse event of this step: [name, x, y] relative to the layer
    pdfjsLib,         \* pdfjs-singleton: the library is cached
    pdfWorker,        \* pdfjs-singleton: the worker pdfWorker wraps, 0 for null
    rawWorker,        \* pdfjs-singleton: the worker in rawWorker, 0 for null
    initPromise,      \* pdfjs-singleton: the initialisation in initPromise, 0 for null
    inits,            \* pdfjs-singleton: the initialisations started so far, each its state
    workers,          \* pdfjs-singleton: the Workers created so far, each [by, terminated]
    calls,            \* pdfjs-singleton: the getPdfJs calls so far
    destroys,         \* pdfjs-singleton: destroyPdfJs calls so far
    nBoxUpdates,      \* updateBoundingBoxes calls so far
    now,              \* the clock, in ms
    timerDue,         \* when the pending timer of the scroll listener fires, -1 for none
    timeline,         \* the scroll events and the updateVisiblePages calls of the timer, timed
    pmState,          \* PdfPresentationMode.state
    pmDocument,       \* PdfPresentationMode.pdfDocument: 0 for null, else its numPages
    currentPageNumber, \* PdfPresentationMode.currentPageNumber
    totalPages,       \* PdfPresentationMode.totalPages
    container,        \* PdfPresentationMode.container with its canvas: 0 for null, else an id
    hostElements,     \* the presentation host elements attached to document.body
    created,          \* presentation containers created so far
    fullscreenListener, \* fullscreenChangeAbortController is set
    windowListeners,  \* windowAbortController is set
    renderingPage,    \* PdfPresentationMode.renderingPage
    pmRender,         \* the renderCurrentPage call in flight: [page, pc, canvas, valid]
    canvasPage,       \* the page drawn on the canvas of the container, 0 for a blank canvas
    fullscreenElement, \* document.fullscreenElement: 0 for null, else a container id
    fullscreenEvents, \* fullscreenchange events queued on the window
    fullscreenRequests, \* containers whose requestFullscreen() promise is pending
    pmAlive,          \* the component that owns the presentation mode is mounted
    pmLast            \* the last presentation step: [op, result]

coreVars == <<pdfDocument, pages, slots, currentScale, currentRotation, renderingQueue,
              isRendering, awaiting, lastPass, passLog, boundingBoxes, dispatched,
              scrollTimeout, scrollTop, listening,
              sd, nChanges, nFails, nStalls>>

loaderVars == <<loads, viewers, viewer, findController, loading, errorCalls>>

findVars == <<docText, textItems, textDivs, query, highlightAll, allMatches,
              selectedMatchIndex, highlightedElements, matchScrollTimer, searchCount,
              fEvents, scrolls, lastOp, prevSel, nexts, reloads>>

toolbarVars == <<startRotation, turns, lastCall, nCalls>>

\* the variables a step of the core, of the loader, of the find controller leaves alone
drawVars == <<isDrawing, start, currentBox, tempBoxes, drawMode, mouse>>

overlayVars == <<pageSize, viewport, box, boxDiv, drawnBox, converted, stage, drawVars>>

pdfjsVars == <<pdfjsLib, pdfWorker, rawWorker, initPromise, inits, workers, calls, destroys>>

hostVars == <<nBoxUpdates>>

clockVars == <<now, timerDue, timeline>>

presentationVars == <<pmState, pmDocument, currentPageNumber, totalPages, container,
                      hostElements, created, fullscreenListener, windowListeners,
                      renderingPage, pmRender, canvasPage, fullscreenElement,
                      fullscreenEvents, fullscreenRequests, pmAlive, pmLast>>

\* the variables a step of the core, of the loader, of the find controller, of the overlay
\* layers, of the pdfjs singleton leaves alone
notCore == <<loaderVars, findVars, toolbarVars, overlayVars, pdfjsVars, hostVars,
          clockVars, presentationVars>>
notLoader == <<coreVars, findVars, toolbarVars, overlayVars, pdfjsVars, hostVars,
          clockVars, presentationVars>>
notFind == <<coreVars, viewerError, loaderVars, toolbarVars, overlayVars, pdfjsVars,
             hostVars,
          clockVars, presentationVars>>
notOverlay == <<coreVars, viewerError, loaderVars, findVars, toolbarVars, pdfjsVars,
                hostVars,
          clockVars, presentationVars>>
notPdfJs == <<coreVars, viewerError, loaderVars, findVars, toolbarVars, overlayVars,
              hostVars,
          clockVars, presentationVars>>

notPresentation == <<coreVars, viewerError, loaderVars, findVars, toolbarVars, overlayVars,
                     pdfjsVars, hostVars, clockVars>>

vars == <<coreVars, viewerError, loaderVars, findVars, toolbarVars, overlayVars, pdfjsVars,
          hostVars,
          clockVars, presentationVars>>

\* ------------------------------------------------------------- utilities
Range(s) == {s[k] : k \in DOMAIN s}
SetMin(S) == CHOOSE x \in S : \A y \in S : x <= y
SetMax(S) == CHOOSE x \in S : \A y \in S : x >= y
InSeq(s, x) == \E k \in DOMAIN s : s[k] = x

\* ======================================================================
\* BoundingBoxLayer, DrawingLayer: the geometry of the overlays
\* ======================================================================
\* numbers are exact fractions <<numerator, denominator>> in lowest terms

RECURSIVE GCD(_, _)
GCD(a, b) == IF b = 0 THEN a ELSE GCD(b, a % b)

Abs(a) == IF a < 0 THEN 0 - a ELSE a

Rat(n, d) ==
    LET g == GCD(Abs(n), Abs(d))
        sign == IF d < 0 THEN 0 - 1 ELSE 1
    IN <<(sign * n) \div g, (sign * d) \div g>>

Num(k) == <<k, 1>>
Plus(a, b) == Rat(a[1] * b[2] + b[1] * a[2], a[2] * b[2])
Minus(a, b) == Rat(a[1] * b[2] - b[1] * a[2], a[2] * b[2])
Times(a, b) == Rat(a[1] * b[1], a[2] * b[2])
Over(a, b) == Rat(a[1] * b[2], a[2] * b[1])
Greater(a, b) == a[1] * b[2] > b[1] * a[2]
MathAbs(a) == <<Abs(a[1]), a[2]>>
MathMin(a, b) == IF Greater(a, b) THEN b ELSE a

\* pdfPage.getViewport({ scale, rotation }) of the engine: a quarter turn swaps the sides
GetViewport(size, scale, rotation) ==
    LET sc == Rat(scale, DEFAULT_SCALE)
        turned == rotation \in {90, 270}
    IN [scale |-> sc,
        width |-> Times(Num(IF turned THEN size[2] ELSE size[1]), sc),
        height |-> Times(Num(IF turned THEN size[1] ELSE size[2]), sc)]

\* the pagedimensions event of setDocument: the viewport at scale 1.0 and rotation 0
PageDimensions(size) ==
    LET unscaledViewport == GetViewport(size, DEFAULT_SCALE, 0)
    IN <<unscaledViewport.width, unscaledViewport.height>>

\* BoundingBoxLayer.renderBox: the position of the div of box b
RenderBox(vp, b) ==
    [left |-> Times(b.x, vp.scale),
     top |-> Minus(vp.height, Times(Plus(b.y, b.height), vp.scale)),
     width |-> Times(b.width, vp.scale),
     height |-> Times(b.height, vp.scale)]

\* DrawingLayer onMouseUp, the drag having started at <<startX, startY>>: the box handed
\* to onBoxDrawn, <<>> when the drag is too small to be reported
OnMouseUp(vp, startX, startY, currentX, currentY) ==
    LET width == MathAbs(Minus(currentX, startX))
        height == MathAbs(Minus(currentY, startY))
        left == MathMin(startX, currentX)
        top == MathMin(startY, currentY)
    IN IF Greater(width, Num(5)) /\ Greater(height, Num(5))
       THEN [x_min |-> Times(Over(left, vp.width), Num(100)),
             x_max |-> Times(Over(Plus(left, width), vp.width), Num(100)),
             y_min |-> Times(Over(top, vp.height), Num(100)),
             y_max |-> Times(Over(Plus(top, height), vp.height), Num(100))]
       ELSE <<>>

\* convertNormalizedBoundingBoxes, for one box
ConvertNormalizedBoundingBox(nb, pageWidth, pageHeight) ==
    LET x_min_points == Times(Over(nb.x_min, Num(100)), pageWidth)
        x_max_points == Times(Over(nb.x_max, Num(100)), pageWidth)
        y_min_points == Times(Over(nb.y_min, Num(100)), pageHeight)
        y_max_points == Times(Over(nb.y_max, Num(100)), pageHeight)
    IN [x |-> x_min_points,
        y |-> Minus(pageHeight, y_max_points),
        width |-> Minus(x_max_points, x_min_points),
        height |-> Minus(y_max_points, y_min_points)]

Boxes(origins, sides) ==
    {[x |-> Num(x), y |-> Num(y), width |-> Num(w), height |-> Num(h)] :
        x \in origins, y \in origins, w \in sides, h \in sides}

\* a page of one of the sizes shown at one of the scales and rotations, and a box on it
NewOverlay(sizes, scales, rotations, boxes) ==
    /\ pageSize \in sizes
    /\ \E sc \in scales, r \in rotations : viewport = GetViewport(pageSize, sc, r)
    /\ box \in boxes
    /\ boxDiv = <<>>
    /\ drawnBox = <<>>
    /\ converted = <<>>
    /\ stage = "new"
    /\ isDrawing = FALSE
    /\ start = <<Num(0), Num(0)>>
    /\ currentBox = FALSE
    /\ tempBoxes = 0
    /\ drawMode = FALSE
    /\ mouse = <<>>

OverlayInit == NewOverlay({<<60, 60>>}, {DEFAULT_SCALE}, {0}, Boxes({0}, {20}))

\* BoundingBoxLayer.render(): the box is shown
BoxRendered ==
    /\ stage = "new"
    /\ boxDiv' = RenderBox(viewport, box)
    /\ stage' = "rendered"
    /\ UNCHANGED <<pageSize, viewport, box, drawnBox, converted, drawVars, notOverlay>>

\* the user drags from the top left to the bottom right corner of the shown box
BoxDrawn ==
    /\ stage = "rendered"
    /\ drawnBox' = OnMouseUp(viewport, boxDiv.left, boxDiv.top,
                             Plus(boxDiv.left, boxDiv.width),
                             Plus(boxDiv.top, boxDiv.height))
    /\ stage' = "drawn"
    /\ UNCHANGED <<pageSize, viewport, box, boxDiv, converted, drawVars, notOverlay>>

\* the host converts the drawn box with the dimensions the viewer reported for the page
BoxConverted ==
    /\ stage = "drawn"
    /\ drawnBox # <<>>
    /\ LET dims == PageDimensions(pageSize)
       IN converted' = ConvertNormalizedBoundingBox(drawnBox, dims[1], dims[2])
    /\ stage' = "converted"
    /\ UNCHANGED <<pageSize, viewport, box, boxDiv, drawnBox, drawVars, notOverlay>>

OverlayNext == BoxRendered \/ BoxDrawn \/ BoxConverted

\* where the pointer can be, relative to the top left corner of the layer: mousedown is
\* heard on the layer, mouseup on the document
InsideLayer == {0, 4, 30, 60}
AnywhereOnScreen == InsideLayer \cup {0 - MaxOrigin, 60 + MaxOrigin}

\* the mousedown listener of the layer
MouseDown(x, y) ==
    /\ mouse' = [name |-> "mousedown", x |-> x, y |-> y]
    /\ tempBoxes < MaxTempBoxes
    /\ IF ~drawMode
       THEN UNCHANGED <<isDrawing, start, currentBox, tempBoxes>>
       ELSE /\ isDrawing' = TRUE
            /\ start' = <<Num(x), Num(y)>>
            /\ currentBox' = TRUE
            /\ tempBoxes' = tempBoxes + 1
    /\ UNCHANGED <<pageSize, viewport, box, boxDiv, drawnBox, converted, stage, drawMode,
                   notOverlay>>

\* the mouseup listener of the document; drawnBox is the box this event reported
MouseUp(x, y) ==
    /\ mouse' = [name |-> "mouseup", x |-> x, y |-> y]
    /\ IF ~isDrawing \/ ~currentBox \/ ~drawMode
       THEN /\ drawnBox' = <<>>
            /\ UNCHANGED <<isDrawing, currentBox, tempBoxes>>
       ELSE /\ isDrawing' = FALSE
            /\ drawnBox' = OnMouseUp(viewport, start[1], start[2], Num(x), Num(y))
            /\ currentBox' = FALSE
            /\ tempBoxes' = tempBoxes - 1
    /\ UNCHANGED <<pageSize, viewport, box, boxDiv, converted, stage, start, drawMode,
                   notOverlay>>

\* the host switches draw mode
SetDrawMode(enabled) ==
    /\ drawMode # enabled
    /\ drawMode' = enabled
    /\ mouse' = <<>>
    /\ drawnBox' = <<>>
    /\ UNCHANGED <<pageSize, viewport, box, boxDiv, converted, stage, isDrawing, start,
                   currentBox, tempBoxes, notOverlay>>

DrawNext ==
    \/ \E x \in InsideLayer, y \in InsideLayer : MouseDown(x, y)
    \/ \E x \in AnywhereOnScreen, y \in AnywhereOnScreen : MouseUp(x, y)
    \/ \E enabled \in BOOLEAN : SetDrawMode(enabled)

\* ======================================================================
\* pdfjs-singleton
\* ======================================================================
PdfJsInit ==
    /\ pdfjsLib = FALSE
    /\ pdfWorker = 0
    /\ rawWorker = 0
    /\ initPromise = 0
    /\ inits = <<>>
    /\ workers = <<>>
    /\ calls = <<>>
    /\ destroys = 0

\* getPdfJs(), in the browser: the cached library, the pending initialisation, or a new
\* initialisation that runs up to its await import(...)
GetPdfJs ==
    /\ Len(calls) < MaxGets
    /\ IF pdfjsLib /\ pdfWorker # 0
       THEN /\ calls' = Append(calls, [era |-> destroys, init |-> 0, started |-> FALSE])
            /\ UNCHANGED <<initPromise, inits>>
       ELSE IF initPromise # 0
       THEN /\ calls' = Append(calls, [era |-> destroys, init |-> initPromise,
                                       started |-> FALSE])
            /\ UNCHANGED <<initPromise, inits>>
       ELSE /\ inits' = Append(inits, [pc |-> "import", era |-> destroys])
            /\ initPromise' = Len(inits) + 1
            /\ calls' = Append(calls, [era |-> destroys, init |-> Len(inits) + 1,
                                       started |-> TRUE])
    /\ UNCHANGED <<pdfjsLib, pdfWorker, rawWorker, workers, destroys, notPdfJs>>

\* the import of initialisation k resolved: the library is cached, the Worker is created
\* and wrapped, and the promise of the initialisation resolves
ImportResolve(k) ==
    /\ k \in DOMAIN inits
    /\ inits[k].pc = "import"
    /\ pdfjsLib' = TRUE
    /\ workers' = Append(workers, [by |-> k, era |-> destroys, terminated |-> FALSE])
    /\ rawWorker' = Len(workers) + 1
    /\ pdfWorker' = Len(workers) + 1
    /\ inits' = [inits EXCEPT ![k].pc = "resolved"]
    /\ UNCHANGED <<initPromise, calls, destroys, notPdfJs>>

\* the import of initialisation k failed: its promise rejects and stays in initPromise
ImportReject(k) ==
    /\ k \in DOMAIN inits
    /\ inits[k].pc = "import"
    /\ inits' = [inits EXCEPT ![k].pc = "rejected"]
    /\ UNCHANGED <<pdfjsLib, pdfWorker, rawWorker, initPromise, workers, calls, destroys,
                   notPdfJs>>

\* destroyPdfJs()
DestroyPdfJs ==
    /\ destroys < MaxDestroys
    /\ pdfWorker' = 0
    /\ workers' = IF rawWorker # 0
                  THEN [workers EXCEPT ![rawWorker].terminated = TRUE]
                  ELSE workers
    /\ rawWorker' = 0
    /\ pdfjsLib' = FALSE
    /\ initPromise' = 0
    /\ destroys' = destroys + 1
    /\ UNCHANGED <<inits, calls, notPdfJs>>

PdfJsNext ==
    \/ GetPdfJs
    \/ \E k \in 1..MaxGets : ImportResolve(k)
    \/ \E k \in 1..MaxGets : ImportReject(k)
    \/ DestroyPdfJs

\* ======================================================================
\* PdfPresentationMode, with the Fullscreen API of the browser
\* ======================================================================
\* the constructed PdfPresentationMode, and after loadPdf has set a document of n pages
PresentationLoaded(n) ==
    /\ pmState = UNKNOWN
    /\ pmDocument = n
    /\ currentPageNumber = 1
    /\ totalPages = n
    /\ container = 0
    /\ hostElements = {}
    /\ created = 0
    /\ fullscreenListener = FALSE
    /\ windowListeners = FALSE
    /\ renderingPage = FALSE
    /\ pmRender = <<>>
    /\ canvasPage = 0
    /\ fullscreenElement = 0
    /\ fullscreenEvents = 0
    /\ fullscreenRequests = {}
    /\ pmAlive = TRUE
    /\ pmLast = [op |-> IF n = 0 THEN "new" ELSE "setDocument", result |-> TRUE]

PresentationInit == PresentationLoaded(0)

PWorld ==
    [state |-> pmState, pdfDocument |-> pmDocument, currentPageNumber |-> currentPageNumber,
     totalPages |-> totalPages, container |-> container, hostElements |-> hostElements,
     created |-> created, fullscreenListener |-> fullscreenListener,
     windowListeners |-> windowListeners, renderingPage |-> renderingPage,
     render |-> pmRender, canvasPage |-> canvasPage,
     fullscreenElement |-> fullscreenElement, fullscreenEvents |-> fullscreenEvents,
     fullscreenRequests |-> fullscreenRequests]

PCommit(p, op, result) ==
    /\ pmState' = p.state
    /\ pmDocument' = p.pdfDocument
    /\ currentPageNumber' = p.currentPageNumber
    /\ totalPages' = p.totalPages
    /\ container' = p.container
    /\ hostElements' = p.hostElements
    /\ created' = p.created
    /\ fullscreenListener' = p.fullscreenListener
    /\ windowListeners' = p.windowListeners
    /\ renderingPage' = p.renderingPage
    /\ pmRender' = p.render
    /\ canvasPage' = p.canvasPage
    /\ fullscreenElement' = p.fullscreenElement
    /\ fullscreenEvents' = p.fullscreenEvents
    /\ fullscreenRequests' = p.fullscreenRequests
    /\ pmLast' = [op |-> op, result |-> result]
    /\ UNCHANGED notPresentation

\* get active()
Active(p) == p.state = CHANGING \/ p.state = FULLSCREEN

\* setDocument(pdfDocument): n is numPages
PmSetDocumentOp(p, n) == [p EXCEPT !.pdfDocument = n, !.totalPages = n]

\* setCurrentPage(pageNumber): Math.max(1, Math.min(pageNumber, totalPages))
SetCurrentPage(p, pageNumber) ==
    LET capped == IF pageNumber < p.totalPages THEN pageNumber ELSE p.totalPages
    IN [p EXCEPT !.currentPageNumber = IF capped > 1 THEN capped ELSE 1]

\* notifyStateChange(newState)
NotifyStateChange(p, newState) == [p EXCEPT !.state = newState]

\* createPresentationContainer(): a new host element with its canvas, appended to the body
CreatePresentationContainer(p) ==
    [p EXCEPT !.created = @ + 1,
              !.container = p.created + 1,
              !.hostElements = @ \cup {p.created + 1},
              !.canvasPage = 0]

\* destroyPresentationContainer(): hostElement.remove(); the browser leaves fullscreen when
\* the fullscreen element is removed from the document, and queues a fullscreenchange event
DestroyPresentationContainer(p) ==
    IF p.container = 0
    THEN p
    ELSE LET wasFullscreen == p.fullscreenElement = p.container
         IN [p EXCEPT !.hostElements = @ \ {p.container},
                      !.container = 0,
                      !.canvasPage = 0,
                      !.fullscreenElement = IF wasFullscreen THEN 0 ELSE @,
                      !.fullscreenEvents = IF wasFullscreen THEN @ + 1 ELSE @]

\* renderCurrentPage(), up to its first await: pdfDocument.getPage(currentPageNumber)
RenderCurrentPage(p) ==
    IF p.pdfDocument = 0 \/ p.container = 0 \/ p.renderingPage
    THEN p
    ELSE [p EXCEPT !.renderingPage = TRUE,
                   !.render = [page |-> p.currentPageNumber, pc |-> "getPage", canvas |-> 0,
                               valid |-> p.currentPageNumber <= p.pdfDocument]]

\* renderCurrentPage(): the catch and finally blocks
RenderFailed(p) == [p EXCEPT !.renderingPage = FALSE, !.render = <<>>]

\* renderCurrentPage() after getPage: the canvas is sized and page.render() starts on it
RenderAfterGetPage(p) ==
    IF ~p.render.valid \/ p.container = 0
    THEN RenderFailed(p)
    ELSE [p EXCEPT !.render.pc = "render", !.render.canvas = p.container]

\* renderCurrentPage() after page.render(): the page is on the canvas it was drawn on
RenderAfterRender(p) ==
    LET p1 == IF p.render.canvas = p.container
              THEN [p EXCEPT !.canvasPage = p.render.page] ELSE p
    IN IF p1.container = 0
       THEN RenderFailed(p1)
       ELSE [p1 EXCEPT !.render.pc = "annotation"]

\* renderCurrentPage() after renderAnnotationLayer(): the finally block
RenderAfterAnnotation(p) == [p EXCEPT !.renderingPage = FALSE, !.render = <<>>]

\* variant: request() without the test of active
RequestWhileActive(p) ==
    IF p.pdfDocument = 0 \/ p.totalPages = 0
    THEN [p |-> p, result |-> FALSE]
    ELSE LET p1 == CreatePresentationContainer(p)
             p2 == NotifyStateChange([p1 EXCEPT !.fullscreenListener = TRUE], CHANGING)
         IN [p |-> [p2 EXCEPT !.fullscreenRequests = @ \cup {p2.container}],
             result |-> TRUE]

\* request(), up to await container.requestFullscreen(); result FALSE is `return false`
Request(p) ==
    IF Active(p) \/ p.pdfDocument = 0 \/ p.totalPages = 0
    THEN [p |-> p, result |-> FALSE]
    ELSE LET p1 == CreatePresentationContainer(p)
             p2 == NotifyStateChange([p1 EXCEPT !.fullscreenListener = TRUE], CHANGING)
         IN [p |-> [p2 EXCEPT !.fullscreenRequests = @ \cup {p2.container}],
             result |-> TRUE]

\* request(): the catch block, requestFullscreen() of container c rejected
RequestRejected(p, c) ==
    LET p1 == NotifyStateChange([p EXCEPT !.fullscreenListener = FALSE,
                                          !.fullscreenRequests = @ \ {c}], NORMAL)
    IN DestroyPresentationContainer(p1)

\* the browser leaves fullscreen (document.exitFullscreen(), or the user pressing Escape)
ExitFullscreen(p) ==
    [p EXCEPT !.fullscreenElement = 0, !.fullscreenEvents = @ + 1]

\* exit(), up to its await
Exit(p) ==
    IF ~Active(p)
    THEN p
    ELSE IF p.fullscreenElement # 0 THEN ExitFullscreen(p) ELSE p

\* nextPage()
NextPage(p) ==
    IF p.currentPageNumber >= p.totalPages
    THEN [p |-> p, result |-> FALSE]
    ELSE [p |-> RenderCurrentPage([p EXCEPT !.currentPageNumber = @ + 1]), result |-> TRUE]

\* previousPage()
PreviousPage(p) ==
    IF p.currentPageNumber <= 1
    THEN [p |-> p, result |-> FALSE]
    ELSE [p |-> RenderCurrentPage([p EXCEPT !.currentPageNumber = @ - 1]), result |-> TRUE]

\* goToPage(pageNumber)
GoToPage_(p, pageNumber) ==
    IF pageNumber < 1 \/ pageNumber > p.totalPages
    THEN [p |-> p, result |-> FALSE]
    ELSE [p |-> RenderCurrentPage([p EXCEPT !.currentPageNumber = pageNumber]),
          result |-> TRUE]

\* destroy()
PmDestroyOp(p) ==
    DestroyPresentationContainer([Exit(p) EXCEPT !.windowListeners = FALSE,
                                                 !.fullscreenListener = FALSE])

\* enter()
Enter(p) ==
    RenderCurrentPage([NotifyStateChange(p, FULLSCREEN) EXCEPT !.windowListeners = TRUE])

\* doExit()
DoExit(p) ==
    LET p1 == DestroyPresentationContainer([p EXCEPT !.windowListeners = FALSE])
    IN NotifyStateChange([p1 EXCEPT !.fullscreenListener = FALSE], NORMAL)

\* the fullscreenchange listener
OnFullscreenChange(p) ==
    IF ~p.fullscreenListener
    THEN p
    ELSE IF p.fullscreenElement # 0 THEN Enter(p) ELSE DoExit(p)

\* ---------------------------------------------------------------- actions
\* loadPdf: presentationMode.setDocument(loadedPdfDocument)
PmSetDocument(n) ==
    /\ pmAlive
    /\ n # pmDocument
    /\ PCommit(PmSetDocumentOp(PWorld, n), "setDocument", TRUE)
    /\ UNCHANGED pmAlive

\* rendererActions.enterPresentationMode: setCurrentPage(viewerState.currentPage), request()
EnterPresentationMode(page) ==
    /\ pmAlive
    /\ created < MaxRequests
    /\ LET r == Request(SetCurrentPage(PWorld, page))
       IN PCommit(r.p, "request", r.result)
    /\ UNCHANGED pmAlive

\* rendererActions.exitPresentationMode
ExitPresentationMode ==
    /\ pmAlive
    /\ Active(PWorld)
    /\ PCommit(Exit(PWorld), "exit", TRUE)
    /\ UNCHANGED pmAlive

\* onDestroy of the component
PmDestroy ==
    /\ pmAlive
    /\ pmAlive' = FALSE
    /\ PCommit(PmDestroyOp(PWorld), "destroy", TRUE)

\* the user leaves fullscreen with Escape
UserExitsFullscreen ==
    /\ fullscreenElement # 0
    /\ PCommit(ExitFullscreen(PWorld), "escape", TRUE)
    /\ UNCHANGED pmAlive

\* the browser grants requestFullscreen() of a container that is still in the document
FullscreenGranted(c) ==
    /\ c \in fullscreenRequests
    /\ c \in hostElements
    /\ PCommit([PWorld EXCEPT !.fullscreenRequests = @ \ {c},
                              !.fullscreenElement = c,
                              !.fullscreenEvents = @ + 1], "granted", TRUE)
    /\ UNCHANGED pmAlive

\* the browser rejects requestFullscreen()
FullscreenRejected(c) ==
    /\ c \in fullscreenRequests
    /\ PCommit(RequestRejected(PWorld, c), "rejected", FALSE)
    /\ UNCHANGED pmAlive

\* a queued fullscreenchange event is delivered
FullscreenChange ==
    /\ fullscreenEvents > 0
    /\ PCommit(OnFullscreenChange([PWorld EXCEPT !.fullscreenEvents = @ - 1]),
               "fullscreenchange", TRUE)
    /\ UNCHANGED pmAlive

\* the window listeners: keys, clicks, wheel and swipes call nextPage and previousPage
KeyNextPage ==
    /\ windowListeners
    /\ LET r == NextPage(PWorld) IN PCommit(r.p, "nextPage", r.result)
    /\ UNCHANGED pmAlive

KeyPreviousPage ==
    /\ windowListeners
    /\ LET r == PreviousPage(PWorld) IN PCommit(r.p, "previousPage", r.result)
    /\ UNCHANGED pmAlive

\* Home, End, and the links of the annotation layer call goToPage
LinkGoToPage(pageNumber) ==
    /\ windowListeners
    /\ LET r == GoToPage_(PWorld, pageNumber) IN PCommit(r.p, "goToPage", r.result)
    /\ UNCHANGED pmAlive

\* handleResize
Resize ==
    /\ windowListeners
    /\ Active(PWorld)
    /\ PCommit(RenderCurrentPage(PWorld), "resize", TRUE)
    /\ UNCHANGED pmAlive

\* the awaits of renderCurrentPage settle
PmGetPageSettles ==
    /\ pmRender # <<>>
    /\ pmRender.pc = "getPage"
    /\ PCommit(RenderAfterGetPage(PWorld), "getPage", TRUE)
    /\ UNCHANGED pmAlive

PmRenderSettles ==
    /\ pmRender # <<>>
    /\ pmRender.pc = "render"
    /\ PCommit(RenderAfterRender(PWorld), "render", TRUE)
    /\ UNCHANGED pmAlive

PmAnnotationSettles ==
    /\ pmRender # <<>>
    /\ pmRender.pc = "annotation"
    /\ PCommit(RenderAfterAnnotation(PWorld), "annotation", TRUE)
    /\ UNCHANGED pmAlive

\* the steps of a presentation whose document stays the same
NavigationNext ==
    \/ \E page \in 1..MaxPmPages : EnterPresentationMode(page)
    \/ ExitPresentationMode
    \/ PmDestroy
    \/ UserExitsFullscreen
    \/ \E c \in 1..MaxRequests : FullscreenGranted(c)
    \/ \E c \in 1..MaxRequests : FullscreenRejected(c)
    \/ FullscreenChange
    \/ KeyNextPage
    \/ KeyPreviousPage
    \/ \E n \in 0..(MaxPmPages + 1) : LinkGoToPage(n)
    \/ Resize
    \/ PmGetPageSettles
    \/ PmRenderSettles
    \/ PmAnnotationSettles

PresentationNext ==
    \/ \E n \in 1..MaxPmPages : PmSetDocument(n)
    \/ NavigationNext

\* ======================================================================
\* PDFPageView
\* ======================================================================

\* getTextContent() of page i: the text items of the page, as many as its number
PageTextItems(i) == [k \in 1..i |-> <<"str", i, k>>]

\* Constructor template shared by the page view and its variant below.
PageViewRecord(i, scale, rotation) ==
    [id |-> i, pdfPage |-> FALSE, scale |-> scale, rotation |-> rotation,
     renderingState |-> INITIAL, renderTask |-> 0,
     textLayerDiv |-> FALSE, textLayerRendered |-> FALSE,
     textDivs |-> <<>>,             \* the spans of the text layer, each <<page, item, layer>>
     textContentItemsStr |-> <<>>,  \* the textContent of each span
     textLayers |-> 0,              \* TextLayer objects rendered since the last reset
     annotationLayerRendered |-> FALSE,
     boundingBoxes |-> {},    \* PDFPageView.boundingBoxes
     boundingBoxLayer |-> FALSE, boundingBoxLayerRendered |-> FALSE,
     shown |-> {},            \* the boxes that have a div in the bounding box layer
     draws |-> <<>>,          \* the draw() invocations in progress
     drawn |-> <<>>,          \* transform of the raster on the canvas of a finished draw
     destroyed |-> FALSE,
     stateLog |-> <<>>,       \* values assigned to renderingState in this step
     cancelled |-> FALSE,     \* a live raster job was cancelled in this step
     erred |-> FALSE]         \* draw() logged 'Error rendering page' in this step

\* variant: the slot is numbered by its 0-based index in pages
NewPageViewZeroBased(i, scale, rotation) == PageViewRecord(i - 1, scale, rotation)

\* constructor: a slot starts INITIAL, with no page, no canvas and no layers
NewPageView(i, scale, rotation) == PageViewRecord(i, scale, rotation)

SetPdfPage(s) == [s EXCEPT !.pdfPage = TRUE]

\* viewport.height of the slot: every page of the document is PageSide x PageSide points
PageHeight(s) == (PageSide * s.scale) \div 10

DrawIndex(s, tag) == CHOOSE k \in DOMAIN s.draws : s.draws[k].tag = tag
HasDraw(s, tag) == \E k \in DOMAIN s.draws : s.draws[k].tag = tag
DrawOf(s, tag) == s.draws[DrawIndex(s, tag)]
RemoveDraw(s, tag) == [s EXCEPT !.draws = SelectSeq(@, LAMBDA d : d.tag # tag)]
SetDrawPc(s, tag, pc) == [s EXCEPT !.draws[DrawIndex(s, tag)].pc = pc]
FreshTag(s) == SetMin({t \in 1..(Len(s.draws) + 1) : ~HasDraw(s, t)})

\* raster jobs of the slot the engine is still working on
LiveJobs(s) == {k \in DOMAIN s.draws : s.draws[k].pc = "raster"}

\* cancelRendering(): the job renderTask refers to is told to cancel, its promise rejects
CancelRendering(s) ==
    IF s.renderTask # 0
    THEN LET live == s.renderTask > 0 /\ HasDraw(s, s.renderTask)
                     /\ DrawOf(s, s.renderTask).pc = "raster"
         IN [(IF live THEN SetDrawPc(s, s.renderTask, "cancelled") ELSE s)
                EXCEPT !.renderTask = 0, !.cancelled = @ \/ live]
    ELSE s

\* draw() past its guard, up to its first await
StartDraw(s) ==
    LET t == FreshTag(s)
    IN [s EXCEPT !.renderingState = RUNNING,
                 !.stateLog = Append(@, RUNNING),
                 !.renderTask = t,
                 !.draws = Append(@, [tag |-> t, pc |-> "raster", scale |-> s.scale,
                                      rotation |-> s.rotation, stalled |-> FALSE])]

\* variant: draw() checks only that a page is attached
PageDrawNoStateGuard(s) == IF ~s.pdfPage THEN s ELSE StartDraw(s)

\* draw(), up to its first await
PageDraw(s) ==
    IF ~s.pdfPage \/ s.renderingState # INITIAL
    THEN s
    ELSE StartDraw(s)

\* BoundingBoxLayer.render(): the divs of the layer are cleared and the boxes of this
\* page are rendered
BoundingBoxLayerRender(s) ==
    [s EXCEPT !.shown = {b \in s.boundingBoxes : b[1] = s.id}]

\* renderBoundingBoxLayer()
RenderBoundingBoxLayer(s) ==
    IF s.boundingBoxLayerRendered /\ s.boundingBoxLayer
    THEN BoundingBoxLayerRender(s)
    ELSE IF {b \in s.boundingBoxes : b[1] = s.id} = {}
    THEN s
    ELSE BoundingBoxLayerRender([s EXCEPT !.boundingBoxLayer = TRUE,
                                          !.boundingBoxLayerRendered = TRUE])

\* variant: only a layer that exists is updated
PageUpdateBoundingBoxesNoFirstRender(s, boxes) ==
    LET s1 == [s EXCEPT !.boundingBoxes = boxes]
    IN IF s1.boundingBoxLayer /\ s1.boundingBoxLayerRendered
       THEN BoundingBoxLayerRender(s1)
       ELSE s1

\* updateBoundingBoxes(boxes) of the page view
PageUpdateBoundingBoxes(s, boxes) ==
    LET s1 == [s EXCEPT !.boundingBoxes = boxes]
    IN IF s1.boundingBoxLayer /\ s1.boundingBoxLayerRendered
       THEN BoundingBoxLayerRender(s1)
       ELSE IF s1.renderingState = FINISHED
       THEN RenderBoundingBoxLayer(s1)
       ELSE s1

\* draw(): the end of the try block
PageDrawFinish(s, tag) ==
    LET d == DrawOf(s, tag)
        s1 == IF ~s.boundingBoxLayerRendered THEN RenderBoundingBoxLayer(s) ELSE s
    IN [RemoveDraw(s1, tag) EXCEPT !.renderingState = FINISHED,
                                  !.stateLog = Append(@, FINISHED),
                                  !.drawn = <<d.scale, d.rotation>>]

\* draw(): from the annotation layer on
PageDrawAnnotation(s, tag) ==
    IF ~s.annotationLayerRendered
    THEN SetDrawPc(s, tag, "annot")
    ELSE PageDrawFinish(s, tag)

\* variant: draw() renders the text layer again on every render
PageDrawAfterRasterAlwaysText(s, tag) ==
    SetDrawPc([s EXCEPT !.renderTask = 0, !.textLayerDiv = TRUE], tag, "text")

\* draw(): the raster promise resolved
PageDrawAfterRaster(s, tag) ==
    LET s1 == [s EXCEPT !.renderTask = 0]
    IN IF ~s1.textLayerRendered
       THEN SetDrawPc([s1 EXCEPT !.textLayerDiv = TRUE], tag, "text")
       ELSE PageDrawAnnotation(s1, tag)

\* renderTextLayer() after its awaits: ok is FALSE when getTextContent or render rejected;
\* a slot reset in between has no textLayerDiv any more and the layer set-up throws
PageDrawAfterText(s, tag, ok) ==
    LET items == PageTextItems(s.id)
        s1 == IF ok /\ s.textLayerDiv
              THEN [s EXCEPT !.textLayerRendered = TRUE,
                             !.textLayers = @ + 1,
                             !.textDivs = [k \in DOMAIN items |-> <<s.id, k, s.textLayers + 1>>],
                             !.textContentItemsStr = items]
              ELSE s
    IN PageDrawAnnotation(s1, tag)

\* renderAnnotationLayer() after its await
PageDrawAfterAnnotation(s, tag, ok) ==
    LET s1 == IF ok THEN [s EXCEPT !.annotationLayerRendered = TRUE] ELSE s
    IN PageDrawFinish(s1, tag)

\* variant: the catch block logs a failure but leaves renderingState alone
PageDrawFailedNoReset(s, tag) ==
    [RemoveDraw(s, tag) EXCEPT !.renderTask = IF @ = tag THEN -1 ELSE @,
                               !.erred = TRUE]

\* draw(): the catch block past its cancellation case; the task handle keeps referring to
\* the failed job
PageDrawFailed(s, tag) ==
    [RemoveDraw(s, tag) EXCEPT !.renderingState = INITIAL,
                               !.stateLog = Append(@, INITIAL),
                               !.renderTask = IF @ = tag THEN -1 ELSE @,
                               !.erred = TRUE]

\* variant: the catch block treats a cancellation like any other failure
PageDrawCatchNoCancelCase(s, tag, errName) == PageDrawFailed(s, tag)

\* draw(): the catch block
PageDrawCatch(s, tag, errName) ==
    IF errName = CancelledName
    THEN RemoveDraw(s, tag)
    ELSE PageDrawFailed(s, tag)

\* resetCanvas()
ResetCanvas(s) ==
    [CancelRendering(s) EXCEPT !.renderingState = INITIAL,
                               !.stateLog = Append(@, INITIAL),
                               !.drawn = <<>>]

\* reset()
PageReset(s) ==
    [CancelRendering(s) EXCEPT !.renderingState = INITIAL,
                               !.stateLog = Append(@, INITIAL),
                               !.drawn = <<>>,
                               !.textLayerDiv = FALSE,
                               !.textLayerRendered = FALSE,
                               !.textDivs = <<>>,
                               !.textContentItemsStr = <<>>,
                               !.textLayers = 0,
                               !.annotationLayerRendered = FALSE,
                               !.boundingBoxLayer = FALSE,
                               !.boundingBoxLayerRendered = FALSE,
                               !.shown = {}]

\* update({scale}) or update({rotation})
PageUpdate(s, field, value) ==
    LET s1 == IF field = "scale" THEN [s EXCEPT !.scale = value]
                                 ELSE [s EXCEPT !.rotation = value]
    IN IF s1.renderingState = FINISHED
       THEN LET s2 == IF s1.boundingBoxLayer /\ s1.boundingBoxLayerRendered
                      THEN BoundingBoxLayerRender(s1)
                      ELSE s1
            IN PageDraw(ResetCanvas(s2))
       ELSE s1

\* destroy()
PageDestroy(s) == [PageReset(CancelRendering(s)) EXCEPT !.destroyed = TRUE]

\* the rejections of the raster jobs cancelled in this step reach the catch block of their draw()
RECURSIVE CatchCancelled(_)
CatchCancelled(s) ==
    IF \E k \in DOMAIN s.draws : s.draws[k].pc = "cancelled"
    THEN LET k == CHOOSE j \in DOMAIN s.draws : s.draws[j].pc = "cancelled"
         IN CatchCancelled(PageDrawCatch(s, s.draws[k].tag, CancelledName))
    ELSE s

\* ======================================================================
\* PDFViewerCore
\* ======================================================================
World ==
    [pdfDocument |-> pdfDocument, pages |-> pages,
     slots |-> [o \in DOMAIN slots |->
                  [slots[o] EXCEPT !.stateLog = <<>>, !.cancelled = FALSE, !.erred = FALSE]],
     currentScale |-> currentScale, currentRotation |-> currentRotation,
     renderingQueue |-> renderingQueue, isRendering |-> isRendering,
     awaiting |-> awaiting, lastPass |-> <<>>, passes |-> <<>>,
     boundingBoxes |-> boundingBoxes,
     events |-> <<>>]

CommitCore(w) ==
    /\ pdfDocument' = w.pdfDocument
    /\ pages' = w.pages
    /\ slots' = w.slots
    /\ currentScale' = w.currentScale
    /\ currentRotation' = w.currentRotation
    /\ renderingQueue' = w.renderingQueue
    /\ isRendering' = w.isRendering
    /\ awaiting' = w.awaiting
    /\ lastPass' = w.lastPass
    /\ passLog' = w.passes
    /\ boundingBoxes' = w.boundingBoxes
    /\ dispatched' = w.events

Commit(w) == CommitCore(w) /\ UNCHANGED notCore

\* the body of the while loop of processRenderingQueue, up to its next await
RECURSIVE ProcessLoop(_)
ProcessLoop(w) ==
    IF w.renderingQueue = <<>>
    THEN [w EXCEPT !.isRendering = FALSE, !.awaiting = <<>>]
    ELSE LET pageIndex == Head(w.renderingQueue)
             w1 == [w EXCEPT !.renderingQueue = Tail(@)]
         IN IF pageIndex + 1 \in DOMAIN w1.pages
               /\ w1.slots[w1.pages[pageIndex + 1]].renderingState = INITIAL
            THEN LET o == w1.pages[pageIndex + 1]
                     s2 == PageDraw(w1.slots[o])
                 IN IF s2.renderTask > 0 /\ s2.renderingState = RUNNING
                    THEN [w1 EXCEPT !.slots[o] = s2, !.awaiting = <<o, s2.renderTask>>]
                    ELSE ProcessLoop(w1)
            ELSE ProcessLoop(w1)

\* variant: processRenderingQueue without the isRendering guard
ProcessRenderingQueueReentrant(w) ==
    IF w.renderingQueue = <<>>
    THEN w
    ELSE ProcessLoop([w EXCEPT !.isRendering = TRUE])

\* processRenderingQueue()
ProcessRenderingQueue(w) ==
    IF w.isRendering \/ w.renderingQueue = <<>>
    THEN w
    ELSE ProcessLoop([w EXCEPT !.isRendering = TRUE])

\* variant: the loop of processRenderingQueue ends after the first draw() it awaited
SettleFirstDrawOnly(w) ==
    LET w1 == [w EXCEPT !.slots = [o \in DOMAIN @ |-> CatchCancelled(@[o])]]
    IN IF w1.awaiting # <<>> /\ ~HasDraw(w1.slots[w1.awaiting[1]], w1.awaiting[2])
       THEN [w1 EXCEPT !.isRendering = FALSE, !.awaiting = <<>>]
       ELSE w1

\* the microtasks that end a step: cancelled draws return, and the loop resumes when the
\* draw() it awaits has returned
Settle(w) ==
    LET w1 == [w EXCEPT !.slots = [o \in DOMAIN @ |-> CatchCancelled(@[o])]]
    IN IF w1.awaiting # <<>> /\ ~HasDraw(w1.slots[w1.awaiting[1]], w1.awaiting[2])
       THEN ProcessLoop(w1)
       ELSE w1

\* top of page i (0-based) in the viewer
RECURSIVE PageTop(_, _)
PageTop(w, i) ==
    IF i = 0 THEN 0
    ELSE PageTop(w, i - 1) + PageHeight(w.slots[w.pages[i]]) + PAGE_MARGIN

\* getVisiblePages()
GetVisiblePages(w, top) ==
    LET containerBottom == top + ContainerHeight
        vis == {i \in 0..(Len(w.pages) - 1) :
                   /\ PageTop(w, i) + PageHeight(w.slots[w.pages[i + 1]]) + PAGE_MARGIN >= top
                   /\ PageTop(w, i) <= containerBottom}
    IN [first |-> IF vis = {} THEN 0 ELSE SetMin(vis),
        last |-> IF vis = {} THEN 0 ELSE SetMax(vis),
        ids |-> {i + 1 : i \in vis}]

\* variant: the for loop adds every page of the range, whatever its state
RECURSIVE EnqueueAnyState(_, _, _, _)
EnqueueAnyState(w, q, i, endPage) ==
    IF i > endPage THEN q
    ELSE EnqueueAnyState(w, IF ~InSeq(q, i) THEN Append(q, i) ELSE q, i + 1, endPage)

\* the for loop of updateVisiblePages: add the INITIAL pages of startPage..i to the queue
RECURSIVE Enqueue(_, _, _, _)
Enqueue(w, q, i, endPage) ==
    IF i > endPage THEN q
    ELSE Enqueue(w,
                 IF w.slots[w.pages[i + 1]].renderingState = INITIAL /\ ~InSeq(q, i)
                 THEN Append(q, i) ELSE q,
                 i + 1, endPage)

\* updateVisiblePages()
UpdateVisiblePages(w, top) ==
    IF w.pdfDocument = 0 \/ Len(w.pages) = 0
    THEN [w EXCEPT !.passes = Append(@, [ran |-> FALSE])]
    ELSE LET visible == GetVisiblePages(w, top)
             startPage == IF visible.first - PAGES_TO_PRERENDER > 0
                          THEN visible.first - PAGES_TO_PRERENDER ELSE 0
             endPage == IF visible.last + PAGES_TO_PRERENDER < Len(w.pages) - 1
                        THEN visible.last + PAGES_TO_PRERENDER ELSE Len(w.pages) - 1
             w1 == [w EXCEPT !.renderingQueue = Enqueue(w, @, startPage, endPage),
                             !.lastPass = <<startPage, endPage>>]
             w2 == ProcessRenderingQueue(w1)
         IN [w2 EXCEPT !.passes =
                Append(@, [ran |-> TRUE, first |-> visible.first, last |-> visible.last,
                           states |-> [i \in 0..(Len(w.pages) - 1) |->
                                         w.slots[w.pages[i + 1]].renderingState],
                           before |-> w.renderingQueue, queued |-> w1.renderingQueue,
                           draining |-> w.isRendering, loop |-> w.awaiting,
                           events |-> Len(w.events),
                           viewports |-> {<<w.slots[o].scale, w.slots[o].rotation>> :
                                            o \in Range(w.pages)},
                           resumed |-> w2.awaiting])]

\* the body of the scale setter
Clamp(value) ==
    LET capped == IF value < MAX_SCALE THEN value ELSE MAX_SCALE
    IN IF capped > MIN_SCALE THEN capped ELSE MIN_SCALE

\* the scale and rotation of the slots of the core
Viewports(w) == {<<w.slots[o].scale, w.slots[o].rotation>> : o \in Range(w.pages)}

\* dispatch(name, value); the entry also records the slot viewports at that moment
DispatchChange(w, name, value) ==
    [w EXCEPT !.events = Append(@, [name |-> name, value |-> value, seen |-> Viewports(w)])]

\* variant: the scale setter dispatches scalechanged before it updates the slots
SetScaleOpEventFirst(w, value, top) ==
    LET newScale == Clamp(value)
    IN IF newScale = w.currentScale
       THEN w
       ELSE LET w1 == DispatchChange([w EXCEPT !.currentScale = newScale],
                               "scalechanged", newScale)
                w2 == [w1 EXCEPT !.slots = [o \in DOMAIN @ |->
                                              IF o \in Range(w.pages)
                                              THEN PageUpdate(@[o], "scale", newScale)
                                              ELSE @[o]]]
            IN UpdateVisiblePages(w2, top)

\* set scale(value)
SetScaleOp(w, value, top) ==
    LET newScale == Clamp(value)
    IN IF newScale = w.currentScale
       THEN w
       ELSE LET w1 == [w EXCEPT !.currentScale = newScale,
                                !.slots = [o \in DOMAIN @ |->
                                             IF o \in Range(w.pages)
                                             THEN PageUpdate(@[o], "scale", newScale)
                                             ELSE @[o]]]
                w2 == DispatchChange(w1, "scalechanged", newScale)
            IN UpdateVisiblePages(w2, top)

\* the % of JavaScript: the remainder takes the sign of the dividend
Rem(a, b) == IF a < 0 THEN 0 - ((0 - a) % b) ELSE a % b

\* variant: the remainder is not brought back into 0..359
NormalizeSigned(value) == Rem(value, 360)

\* the body of the rotation setter: ((value % 360) + 360) % 360
Normalize(value) == Rem(Rem(value, 360) + 360, 360)

SetRotationOp(w, value, top) ==
    LET newRotation == Normalize(value)
    IN IF newRotation = w.currentRotation
       THEN w
       ELSE LET w1 == [w EXCEPT !.currentRotation = newRotation,
                                !.slots = [o \in DOMAIN @ |->
                                             IF o \in Range(w.pages)
                                             THEN PageUpdate(@[o], "rotation", newRotation)
                                             ELSE @[o]]]
                w2 == DispatchChange(w1, "rotationchanged", newRotation)
            IN UpdateVisiblePages(w2, top)

\* updateBoundingBoxes(boxes) of the core
UpdateBoundingBoxesOp(w, boxes) ==
    [w EXCEPT !.boundingBoxes = boxes,
              !.slots = [o \in DOMAIN @ |->
                           IF o \in Range(w.pages)
                           THEN PageUpdateBoundingBoxes(@[o], boxes)
                           ELSE @[o]]]

\* cleanup()
Cleanup(w) ==
    [w EXCEPT !.slots = [o \in DOMAIN @ |->
                           IF o \in Range(w.pages) THEN PageDestroy(@[o]) ELSE @[o]],
              !.pages = <<>>,
              !.renderingQueue = <<>>,
              !.pdfDocument = 0]

\* ---------------------------------------------------------------- actions
\* new PDFViewerCore(options), the options drawn from the given sets
NewViewerCore(scales, rotations) ==
    /\ pdfDocument = 0
    /\ pages = <<>>
    /\ slots = <<>>
    /\ currentScale \in scales
    /\ currentRotation \in rotations
    /\ dispatched = <<>>
    /\ passLog = <<>>
    /\ startRotation = currentRotation
    /\ turns = 0
    /\ lastCall = [name |-> "new", scale |-> currentScale]
    /\ nCalls = 0
    /\ nBoxUpdates = 0
    /\ now = 0
    /\ timerDue = -1
    /\ timeline = <<>>
    /\ renderingQueue = <<>>
    /\ isRendering = FALSE
    /\ awaiting = <<>>
    /\ lastPass = <<>>
    /\ scrollTimeout = FALSE
    /\ scrollTop = 0
    /\ listening = TRUE
    /\ sd = [pc |-> "idle", n |-> 0, i |-> 0]
    /\ viewerError = NoError
    /\ nChanges = 0
    /\ nFails = 0
    /\ nStalls = 0

CoreInit == NewViewerCore(InitialScales, InitialRotations) /\ boundingBoxes = {}

LoaderInit ==
    /\ loads = <<>>
    /\ viewers = <<>>
    /\ viewer = 0
    /\ findController = 0
    /\ loading = FALSE
    /\ errorCalls = 0

\* new FindController(viewer, eventBus), over the pages of the document doc
FindControllerInit(doc) ==
    /\ docText = doc
    /\ textItems = [p \in DOMAIN doc |-> <<>>]
    /\ textDivs = [p \in DOMAIN doc |-> <<>>]
    /\ query = <<>>
    /\ highlightAll = TRUE
    /\ allMatches = <<>>
    /\ selectedMatchIndex = -1
    /\ highlightedElements = <<>>
    /\ matchScrollTimer = FALSE
    /\ searchCount = <<0, 0>>
    /\ fEvents = <<>>
    /\ scrolls = <<>>
    /\ lastOp = [name |-> "new", page |-> 0]
    /\ prevSel = -1
    /\ nexts = -1
    /\ reloads = 0

Init ==
    /\ CoreInit /\ LoaderInit /\ FindControllerInit(<<>>) /\ OverlayInit /\ PdfJsInit
    /\ PresentationInit

\* loadPdf: await newViewer.setDocument(loadedPdfDocument), up to the first getPage
SetDocument(n) ==
    /\ sd.pc = "idle"
    /\ listening
    /\ Commit(Settle([Cleanup(World) EXCEPT !.pdfDocument = n]))
    /\ sd' = [pc |-> "getPage", n |-> n, i |-> 1]
    /\ UNCHANGED <<scrollTimeout, scrollTop, listening, viewerError, nChanges, nFails, nStalls>>

\* setDocument: getPage(i) resolved; after the last page the pages are announced, the
\* visible pages are rendered and loadPdf registers the viewer
GetPageResolve ==
    /\ sd.pc = "getPage"
    /\ LET w == World
           pageView == SetPdfPage([NewPageView(sd.i, w.currentScale, w.currentRotation)
                                      EXCEPT !.boundingBoxes = w.boundingBoxes])
           w1 == [w EXCEPT !.slots = [o \in DOMAIN @ \cup {sd.i} |->
                                        IF o = sd.i THEN pageView ELSE @[o]],
                           !.pages = Append(@, sd.i)]
       IN IF sd.i < sd.n
          THEN /\ Commit(w1)
               /\ sd' = [sd EXCEPT !.i = @ + 1]
          ELSE /\ Commit(Settle(UpdateVisiblePages(w1, scrollTop)))
               /\ sd' = [sd EXCEPT !.pc = "done"]
    /\ UNCHANGED <<scrollTimeout, scrollTop, listening, viewerError, nChanges, nFails, nStalls>>

\* destroy() of the core
CoreDestroy ==
    /\ Commit(Settle(Cleanup(World)))
    /\ listening' = FALSE

\* setDocument: getPage(i) rejected; the catch block of loadPdf destroys the new viewer
GetPageReject ==
    /\ sd.pc = "getPage"
    /\ CoreDestroy
    /\ sd' = [sd EXCEPT !.pc = "failed"]
    /\ viewerError' = "Failed to load PDF"
    /\ UNCHANGED <<scrollTimeout, scrollTop, nChanges, nFails, nStalls>>

\* loadPdf of the next source, or onDestroy: viewer.destroy()
Destroy ==
    /\ sd.pc = "done"
    /\ listening
    /\ CoreDestroy
    /\ UNCHANGED <<scrollTimeout, scrollTop, sd, viewerError, nChanges, nFails, nStalls>>

\* the scroll listener: the pending timer is cleared and a new one is set
Scroll(top) ==
    /\ listening
    /\ scrollTop' = top
    /\ scrollTimeout' = TRUE
    /\ Commit(World)
    /\ UNCHANGED <<listening, sd, viewerError, nChanges, nFails, nStalls>>

\* the debounce timer fires
ScrollTimeout ==
    /\ scrollTimeout
    /\ scrollTimeout' = FALSE
    /\ Commit(Settle(UpdateVisiblePages(World, scrollTop)))
    /\ UNCHANGED <<scrollTop, listening, sd, viewerError, nChanges, nFails, nStalls>>

Registered == sd.pc = "done" /\ listening

ChangeScale(value) ==
    /\ Registered
    /\ nChanges < MaxChanges
    /\ Clamp(value) # currentScale
    /\ Commit(Settle(SetScaleOp(World, value, scrollTop)))
    /\ nChanges' = nChanges + 1
    /\ UNCHANGED <<scrollTimeout, scrollTop, listening, sd, viewerError, nFails, nStalls>>

ChangeRotation(value) ==
    /\ Registered
    /\ nChanges < MaxChanges
    /\ Commit(Settle(SetRotationOp(World, value, scrollTop)))
    /\ nChanges' = nChanges + 1
    /\ UNCHANGED <<scrollTimeout, scrollTop, listening, sd, viewerError, nFails, nStalls>>

\* rendererActions.setScale
SetScale(value) == ChangeScale(value)
\* zoomIn()
ZoomIn == ChangeScale(currentScale + DEFAULT_SCALE_DELTA)
\* zoomOut()
ZoomOut == ChangeScale(currentScale - DEFAULT_SCALE_DELTA)
\* rotateClockwise()
RotateClockwise == ChangeRotation(currentRotation + 90)
\* rotateCounterClockwise()
RotateCounterClockwise == ChangeRotation(currentRotation - 90)

\* a call of the toolbar (rendererActions) reaches the viewer once loadPdf has registered
\* it; w is the core after the call
ToolbarCall(name, w, quarterTurns) ==
    /\ Registered
    /\ nCalls < MaxCalls
    /\ CommitCore(Settle(w))
    /\ lastCall' = [name |-> name, scale |-> currentScale]
    /\ turns' = turns + quarterTurns
    /\ nCalls' = nCalls + 1
    /\ UNCHANGED <<scrollTimeout, scrollTop, listening, sd, viewerError, nChanges, nFails,
                   nStalls, startRotation, loaderVars, findVars, overlayVars, pdfjsVars,
                   presentationVars,
                   hostVars, clockVars>>

\* rendererActions.setScale, zoomIn, zoomOut, rotateClockwise, rotateCounterClockwise
ToolbarSetScale(value) ==
    ToolbarCall("setScale", SetScaleOp(World, value, scrollTop), 0)
ToolbarZoomIn ==
    ToolbarCall("zoomIn", SetScaleOp(World, currentScale + DEFAULT_SCALE_DELTA, scrollTop), 0)
ToolbarZoomOut ==
    ToolbarCall("zoomOut", SetScaleOp(World, currentScale - DEFAULT_SCALE_DELTA, scrollTop), 0)
ToolbarRotateClockwise ==
    ToolbarCall("rotateClockwise", SetRotationOp(World, currentRotation + 90, scrollTop), 1)
ToolbarRotateCounterClockwise ==
    ToolbarCall("rotateCounterClockwise",
                SetRotationOp(World, currentRotation - 90, scrollTop), -1)

\* a step of the draw() with this tag of slot o, then the microtasks
DrawStep(o, tag, s2) ==
    Commit(Settle([World EXCEPT !.slots[o] = s2]))

AtPc(o, tag, pc) ==
    /\ o \in DOMAIN slots
    /\ HasDraw(slots[o], tag)
    /\ DrawOf(slots[o], tag).pc = pc

\* the engine finished the raster job
RasterResolve(o, tag) ==
    /\ AtPc(o, tag, "raster")
    /\ ~DrawOf(slots[o], tag).stalled
    /\ DrawStep(o, tag, PageDrawAfterRaster(World.slots[o], tag))
    /\ UNCHANGED <<scrollTimeout, scrollTop, listening, sd, viewerError, nChanges, nFails, nStalls>>

\* the raster job failed for a reason other than cancellation
RasterReject(o, tag) ==
    /\ AtPc(o, tag, "raster")
    /\ ~DrawOf(slots[o], tag).stalled
    /\ nFails < MaxFails
    /\ DrawStep(o, tag, PageDrawCatch(World.slots[o], tag, OtherErrorName))
    /\ nFails' = nFails + 1
    /\ UNCHANGED <<scrollTimeout, scrollTop, listening, sd, viewerError, nChanges, nStalls>>

\* the raster job stalls: the engine never settles it
RasterStall(o, tag) ==
    /\ AtPc(o, tag, "raster")
    /\ ~DrawOf(slots[o], tag).stalled
    /\ nStalls < MaxStalls
    /\ Commit([World EXCEPT !.slots[o].draws[DrawIndex(slots[o], tag)].stalled = TRUE])
    /\ nStalls' = nStalls + 1
    /\ UNCHANGED <<scrollTimeout, scrollTop, listening, sd, viewerError, nChanges, nFails>>

\* the text content was extracted and the text layer rendered
TextResolve(o, tag) ==
    /\ AtPc(o, tag, "text")
    /\ DrawStep(o, tag, PageDrawAfterText(World.slots[o], tag, TRUE))
    /\ UNCHANGED <<scrollTimeout, scrollTop, listening, sd, viewerError, nChanges, nFails, nStalls>>

\* text extraction failed: renderTextLayer logs and returns
TextReject(o, tag) ==
    /\ AtPc(o, tag, "text")
    /\ DrawStep(o, tag, PageDrawAfterText(World.slots[o], tag, FALSE))
    /\ UNCHANGED <<scrollTimeout, scrollTop, listening, sd, viewerError, nChanges, nFails, nStalls>>

\* the annotations were extracted and the annotation layer rendered
AnnotationResolve(o, tag) ==
    /\ AtPc(o, tag, "annot")
    /\ DrawStep(o, tag, PageDrawAfterAnnotation(World.slots[o], tag, TRUE))
    /\ UNCHANGED <<scrollTimeout, scrollTop, listening, sd, viewerError, nChanges, nFails, nStalls>>

\* annotation extraction failed: renderAnnotationLayer logs and returns
AnnotationReject(o, tag) ==
    /\ AtPc(o, tag, "annot")
    /\ DrawStep(o, tag, PageDrawAfterAnnotation(World.slots[o], tag, FALSE))
    /\ UNCHANGED <<scrollTimeout, scrollTop, listening, sd, viewerError, nChanges, nFails, nStalls>>

Tags == 1..2

Settlements ==
    \/ \E o \in 1..MaxPages, t \in Tags : RasterResolve(o, t)
    \/ \E o \in 1..MaxPages, t \in Tags : TextResolve(o, t)
    \/ \E o \in 1..MaxPages, t \in Tags : AnnotationResolve(o, t)

Failures ==
    \/ \E o \in 1..MaxPages, t \in Tags : RasterReject(o, t)
    \/ \E o \in 1..MaxPages, t \in Tags : TextReject(o, t)
    \/ \E o \in 1..MaxPages, t \in Tags : AnnotationReject(o, t)

\* one PDFViewerCore from its construction to its destruction
Next ==
    \/ \E n \in 1..MaxPages : SetDocument(n)
    \/ GetPageResolve
    \/ GetPageReject
    \/ Destroy
    \/ \E top \in ScrollTops : Scroll(top)
    \/ ScrollTimeout
    \/ \E v \in ScaleInputs : SetScale(v)
    \/ ZoomIn
    \/ ZoomOut
    \/ RotateClockwise
    \/ RotateCounterClockwise
    \/ Settlements
    \/ Failures

Spec == Init /\ [][Next]_vars

\* a core whose only input, once its document is set, is the scroll event
ScrollNext ==
    \/ \E n \in 1..MaxPages : SetDocument(n)
    \/ GetPageResolve
    \/ \E top \in ScrollTops : Scroll(top)
    \/ ScrollTimeout
    \/ Settlements
    \/ Failures

ScrollSpec == Init /\ [][ScrollNext]_vars

\* a viewer of a one-page document, constructed with the scale prop of the host and the
\* rotation of the viewer before it, and driven through the toolbar
ViewportInit ==
    /\ NewViewerCore(HostScales, HostRotations)
    /\ boundingBoxes = {}
    /\ LoaderInit
    /\ FindControllerInit(<<>>)
    /\ OverlayInit
    /\ PdfJsInit /\ PresentationInit

ViewportNext ==
    \/ SetDocument(1)
    \/ GetPageResolve
    \/ \E v \in ScaleInputs : ToolbarSetScale(v)
    \/ ToolbarZoomIn
    \/ ToolbarZoomOut
    \/ ToolbarRotateClockwise
    \/ ToolbarRotateCounterClockwise
    \/ Settlements

ViewportSpec == ViewportInit /\ [][ViewportNext]_vars

\* rendererActions.updateBoundingBoxes, and the effect on the boundingBoxes of the context
UpdateBoundingBoxes(boxes) ==
    /\ Registered
    /\ nBoxUpdates < MaxBoxUpdates
    /\ boxes # boundingBoxes
    /\ CommitCore(Settle(UpdateBoundingBoxesOp(World, boxes)))
    /\ nBoxUpdates' = nBoxUpdates + 1
    /\ UNCHANGED <<scrollTimeout, scrollTop, listening, sd, viewerError, nChanges, nFails,
                   nStalls, loaderVars, findVars, toolbarVars, overlayVars, pdfjsVars,
                   presentationVars,
                   clockVars>>

\* a viewer constructed with some boxes, whose boxes and scale the host changes
\* while its pages render
BoxInit ==
    /\ NewViewerCore(InitialScales, InitialRotations)
    /\ boundingBoxes \in BoxInputs
    /\ LoaderInit
    /\ FindControllerInit(<<>>)
    /\ OverlayInit
    /\ PdfJsInit /\ PresentationInit

BoxNext ==
    \/ \E n \in 1..MaxPages : SetDocument(n)
    \/ GetPageResolve
    \/ \E boxes \in BoxInputs : UpdateBoundingBoxes(boxes)
    \/ ZoomIn
    \/ Settlements
    \/ Failures

BoxSpec == BoxInit /\ [][BoxNext]_vars

\* a core fed by scroll events whose engine may leave one raster job unsettled for ever;
\* every other promise settles, and every timer fires
StallNext ==
    \/ \E n \in 1..MaxPages : SetDocument(n)
    \/ GetPageResolve
    \/ \E top \in ScrollTops : Scroll(top)
    \/ ScrollTimeout
    \/ Settlements
    \/ \E o \in 1..MaxPages, t \in Tags : RasterStall(o, t)

StallSpec == Init /\ [][StallNext]_vars

\* ======================================================================
\* PdfRenderer.svelte: loadPdf
\* ======================================================================

\* PDFViewerCore.destroy(), as the loader sees it: the scroll listener is aborted and the
\* viewer div leaves the container
ViewerDestroyed(V, v) ==
    [k \in DOMAIN V |-> IF k = v THEN [V[k] EXCEPT !.alive = FALSE, !.inContainer = FALSE]
                                  ELSE V[k]]

\* scrollContainerEl.innerHTML = ''
ContainerCleared(V) == [k \in DOMAIN V |-> [V[k] EXCEPT !.inContainer = FALSE]]

\* loadPdf(source), up to await getPdfJs(); the source is numbered by the call
LoadPdf ==
    /\ Len(loads) < MaxLoads
    /\ loading' = TRUE
    /\ viewerError' = NoError
    /\ viewer' = 0
    /\ viewers' = ContainerCleared(IF viewer # 0 THEN ViewerDestroyed(viewers, viewer)
                                                 ELSE viewers)
    /\ loads' = Append(loads, [pc |-> "getPdfJs", newViewer |-> 0])
    /\ UNCHANGED <<findController, errorCalls, notLoader>>

\* getPdfJs() and the imports resolved: the new viewer and its find controller are
\* created, the listeners are set up and the document is requested
GetPdfJsResolve(l) ==
    /\ l \in DOMAIN loads
    /\ loads[l].pc = "getPdfJs"
    /\ LET v == Len(viewers) + 1
       IN /\ viewers' = Append(viewers, [src |-> l, alive |-> TRUE, inContainer |-> TRUE])
          /\ findController' = v
          /\ loads' = [loads EXCEPT ![l] = [pc |-> "open", newViewer |-> v]]
    /\ UNCHANGED <<viewer, loading, errorCalls, viewerError, notLoader>>

\* loadingTask.promise resolved: newViewer.setDocument(loadedPdfDocument) starts
OpenResolve(l) ==
    /\ l \in DOMAIN loads
    /\ loads[l].pc = "open"
    /\ loads' = [loads EXCEPT ![l].pc = "setDocument"]
    /\ UNCHANGED <<viewers, viewer, findController, loading, errorCalls, viewerError, notLoader>>

\* the catch block of loadPdf
LoadCatch(l) ==
    /\ viewers' = IF loads[l].newViewer # 0 THEN ViewerDestroyed(viewers, loads[l].newViewer)
                                             ELSE viewers
    /\ findController' = 0
    /\ viewerError' = "Failed to load PDF"
    /\ loading' = FALSE
    /\ errorCalls' = errorCalls + 1
    /\ loads' = [loads EXCEPT ![l].pc = "failed", ![l].newViewer = 0]
    /\ UNCHANGED <<viewer, notLoader>>

\* getPdfJs(), the opening of the document or setDocument rejected
LoadReject(l) ==
    /\ l \in DOMAIN loads
    /\ loads[l].pc \in {"getPdfJs", "open", "setDocument"}
    /\ LoadCatch(l)

\* setDocument resolved: the find controller in the variable gets the document and the
\* new viewer is registered; with no find controller left the call throws into the catch
SetDocumentResolve(l) ==
    /\ l \in DOMAIN loads
    /\ loads[l].pc = "setDocument"
    /\ IF findController = 0
       THEN LoadCatch(l)
       ELSE /\ viewer' = loads[l].newViewer
            /\ loading' = FALSE
            /\ loads' = [loads EXCEPT ![l].pc = "done"]
            /\ UNCHANGED <<viewers, findController, errorCalls, viewerError, notLoader>>

LoadNext ==
    \/ LoadPdf
    \/ \E l \in 1..MaxLoads : GetPdfJsResolve(l)
    \/ \E l \in 1..MaxLoads : OpenResolve(l)
    \/ \E l \in 1..MaxLoads : LoadReject(l)
    \/ \E l \in 1..MaxLoads : SetDocumentResolve(l)

LoadSpec == Init /\ [][LoadNext]_vars

\* ======================================================================
\* FindController, with the text layer of the pages and the host actions
\* ======================================================================
\* strings are sequences of characters

\* the pages a document is made of: the text items of a page, in rendering order
PageTexts == { << <<"a", "b">>, <<"A">> >>,
               << <<"b", "a">>, <<"b">> >>,
               << <<"a", "a">> >> }

Documents == UNION {[1..n -> PageTexts] : n \in 1..MaxFindPages}

\* the queries the host searches for
Queries == { <<"a">>, <<"b">>, <<"A", "b">>, <<>>, <<" ">> }

\* the options rendererActions.search passes to find()
SearchOptions == [highlightAll |-> TRUE, caseSensitive |-> FALSE, entireWord |-> FALSE,
                  findPrevious |-> FALSE]

FOUND == 0
NOT_FOUND == 1
WRAPPED == 2
PENDING == 3

Lower(c) == IF c = "A" THEN "a" ELSE IF c = "B" THEN "b" ELSE c
ToLowerCase(s) == [k \in DOMAIN s |-> Lower(s[k])]

\* query.trim() === ''
IsBlank(s) == \A k \in DOMAIN s : s[k] = " "

\* /\w/.test(c)
IsWordChar(c) == c # " "

\* Array.join('')
RECURSIVE Join(_)
Join(items) == IF items = <<>> THEN <<>> ELSE Head(items) \o Join(Tail(items))

\* String.substring(a, b), positions counted from 0
Substring(s, a, b) ==
    LET lo == IF a < 0 THEN 0 ELSE IF a > Len(s) THEN Len(s) ELSE a
        hi == IF b < 0 THEN 0 ELSE IF b > Len(s) THEN Len(s) ELSE b
    IN IF lo <= hi THEN SubSeq(s, lo + 1, hi) ELSE SubSeq(s, hi + 1, lo)

\* String.indexOf(q, from), positions counted from 0
IndexOf(s, q, from) ==
    LET found == {k \in from..(Len(s) - Len(q)) : SubSeq(s, k + 1, k + Len(q)) = q}
    IN IF found = {} THEN -1 ELSE SetMin(found)

\* Node.textContent of a div
TextContent(div) == Join([k \in DOMAIN div |-> div[k].t])

TextNode(s) == [t |-> s, span |-> 0, selected |-> FALSE]

\* the div of a text item as the text layer creates it
TextDiv(item) == IF item = <<>> THEN <<>> ELSE <<TextNode(item)>>

pagesCount == Len(docText)

FWorld ==
    [textItems |-> textItems, textDivs |-> textDivs, query |-> query,
     highlightAll |-> highlightAll, allMatches |-> allMatches,
     selectedMatchIndex |-> selectedMatchIndex,
     highlightedElements |-> highlightedElements,
     matchScrollTimer |-> matchScrollTimer, searchCount |-> searchCount,
     fEvents |-> <<>>, scrolls |-> <<>>]

FCommit(f, op, arg) ==
    /\ textItems' = f.textItems
    /\ textDivs' = f.textDivs
    /\ query' = f.query
    /\ highlightAll' = f.highlightAll
    /\ allMatches' = f.allMatches
    /\ selectedMatchIndex' = f.selectedMatchIndex
    /\ highlightedElements' = f.highlightedElements
    /\ matchScrollTimer' = f.matchScrollTimer
    /\ searchCount' = f.searchCount
    /\ fEvents' = f.fEvents
    /\ scrolls' = f.scrolls
    /\ lastOp' = [name |-> op, page |-> arg]
    /\ prevSel' = selectedMatchIndex
    /\ UNCHANGED <<docText, reloads, notFind>>

\* EventBus.dispatch, with the listener PdfRenderer registers for the match count
Dispatch(f, ev) ==
    [f EXCEPT !.fEvents = Append(@, ev),
              !.searchCount = IF ev.name = "updatefindmatchescount"
                              THEN <<ev.current, ev.total>> ELSE @]

\* variant: the event carries the 0-based index of the selected match
CountEventZeroBased(f) ==
    [name |-> "updatefindmatchescount", current |-> f.selectedMatchIndex,
     total |-> Len(f.allMatches), state |-> -1, pageNumber |-> 0]

CountEvent(f) ==
    [name |-> "updatefindmatchescount", current |-> f.selectedMatchIndex + 1,
     total |-> Len(f.allMatches), state |-> -1, pageNumber |-> 0]

StateEvent(s) ==
    [name |-> "updatefindcontrolstate", current |-> 0, total |-> 0, state |-> s,
     pageNumber |-> 0]

PageEvent(n) ==
    [name |-> "pagechanged", current |-> 0, total |-> 0, state |-> -1, pageNumber |-> n]

\* variant: scrollToPage checks the lower bound only
ViewerScrollToPageNoUpperBound(f, pageNumber) ==
    IF pageNumber < 1
    THEN f
    ELSE Dispatch([f EXCEPT !.scrolls = Append(@, [kind |-> "page", page |-> pageNumber,
                                                   x |-> 0, y |-> 0])],
                  PageEvent(pageNumber))

\* PDFViewerCore.scrollToPage
ViewerScrollToPage(f, pageNumber) ==
    IF pageNumber < 1 \/ pageNumber > pagesCount
    THEN f
    ELSE Dispatch([f EXCEPT !.scrolls = Append(@, [kind |-> "page", page |-> pageNumber,
                                                   x |-> 0, y |-> 0])],
                  PageEvent(pageNumber))

\* PDFViewerCore.scrollToCoordinates
ViewerScrollToCoordinates(f, page, x, y) ==
    IF page < 1 \/ page > pagesCount
    THEN f
    ELSE Dispatch([f EXCEPT !.scrolls = Append(@, [kind |-> "coordinates", page |-> page,
                                                   x |-> x, y |-> y])],
                  PageEvent(page))

\* the div the span el is a child of: <<page, div>>, or <<>> for a detached span
ParentElement(f, el) ==
    LET at == {pd \in UNION {{<<pg, d>> : d \in DOMAIN f.textDivs[pg]} :
                                  pg \in DOMAIN f.textDivs} :
                  /\ \E k \in DOMAIN f.textDivs[pd[1]][pd[2]] :
                       f.textDivs[pd[1]][pd[2]][k].span = el}
    IN IF at = {} THEN <<>> ELSE CHOOSE pd \in at : TRUE

\* clearHighlights(): the loop over highlightedElements from element k on
RECURSIVE RestoreText(_, _)
RestoreText(f, k) ==
    IF k > Len(f.highlightedElements)
    THEN f
    ELSE LET parent == ParentElement(f, f.highlightedElements[k])
         IN IF parent = <<>>
            THEN RestoreText(f, k + 1)
            ELSE RestoreText(
                   [f EXCEPT !.textDivs[parent[1]][parent[2]] = TextDiv(TextContent(@))],
                   k + 1)

\* variant: clearHighlights forgets the spans without restoring their divs
ClearHighlightsKeepSpans(f) == [f EXCEPT !.highlightedElements = <<>>]

\* clearHighlights()
ClearHighlights(f) == [RestoreText(f, 1) EXCEPT !.highlightedElements = <<>>]

\* highlightMatches(): the body of the loop for match i (counted from 0)
HighlightMatch(f, i) ==
    LET match == f.allMatches[i + 1]
        pg == match.pageIndex + 1
        d == match.divIndex + 1
        isSelected == i = f.selectedMatchIndex
    IN IF pg \notin DOMAIN f.textDivs \/ d \notin DOMAIN f.textDivs[pg]
       THEN f
       ELSE IF ~f.highlightAll /\ ~isSelected
       THEN f
       ELSE LET originalText == TextContent(f.textDivs[pg][d])
                before == Substring(originalText, 0, match.offset)
                highlighted == Substring(originalText, match.offset,
                                         match.offset + match.length)
                after == Substring(originalText, match.offset + match.length,
                                   Len(originalText))
                el == Len(f.highlightedElements) + 1
                span == [t |-> highlighted, span |-> el, selected |-> isSelected]
            IN [f EXCEPT !.textDivs[pg][d] =
                            (IF before # <<>> THEN <<TextNode(before)>> ELSE <<>>)
                            \o <<span>>
                            \o (IF after # <<>> THEN <<TextNode(after)>> ELSE <<>>),
                         !.highlightedElements = Append(@, el)]

RECURSIVE HighlightLoop(_, _)
HighlightLoop(f, i) ==
    IF i >= Len(f.allMatches) THEN f ELSE HighlightLoop(HighlightMatch(f, i), i + 1)

\* highlightMatches()
HighlightMatches(f) ==
    LET f1 == ClearHighlights(f)
    IN IF ~f1.highlightAll /\ f1.selectedMatchIndex = -1
       THEN f1
       ELSE HighlightLoop(f1, 0)

\* scrollToSelectedMatch()
ScrollToSelectedMatch(f) ==
    IF f.selectedMatchIndex = -1 \/ f.selectedMatchIndex + 1 \notin DOMAIN f.allMatches
    THEN f
    ELSE [ViewerScrollToPage(f, f.allMatches[f.selectedMatchIndex + 1].pageIndex + 1)
             EXCEPT !.matchScrollTimer = TRUE]

\* find(): the div a match at position pos of the page text begins in
RECURSIVE DivAt(_, _, _, _)
DivAt(items, pos, j, charIndex) ==
    IF j >= Len(items)
    THEN [divIndex |-> 0, charIndex |-> charIndex]
    ELSE IF charIndex + Len(items[j + 1]) > pos
         THEN [divIndex |-> j, charIndex |-> charIndex]
         ELSE DivAt(items, pos, j + 1, charIndex + Len(items[j + 1]))

\* find(): the while loop over the occurrences in page i (counted from 0)
RECURSIVE ScanPage(_, _, _, _, _, _, _)
ScanPage(i, items, searchText, searchQuery, entireWord, from, found) ==
    LET pos == IndexOf(searchText, searchQuery, from)
    IN IF pos = -1
       THEN found
       ELSE LET before == IF pos > 0 THEN searchText[pos] ELSE " "
                after == IF pos + Len(searchQuery) < Len(searchText)
                         THEN searchText[pos + Len(searchQuery) + 1] ELSE " "
            IN IF entireWord /\ (IsWordChar(before) \/ IsWordChar(after))
               THEN ScanPage(i, items, searchText, searchQuery, entireWord, pos + 1, found)
               ELSE LET at == DivAt(items, pos, 0, 0)
                    IN ScanPage(i, items, searchText, searchQuery, entireWord, pos + 1,
                                Append(found,
                                       [pageIndex |-> i, matchIndex |-> Len(found),
                                        divIndex |-> at.divIndex,
                                        offset |-> pos - at.charIndex,
                                        length |-> Len(searchQuery)]))

\* find(): the for loop over the pages, from page i (counted from 0) on
RECURSIVE SearchPages(_, _, _, _)
SearchPages(f, q, options, i) ==
    IF i >= pagesCount
    THEN <<>>
    ELSE LET items == f.textItems[i + 1]
             fullText == Join(items)
             searchText == IF options.caseSensitive THEN fullText ELSE ToLowerCase(fullText)
             searchQuery == IF options.caseSensitive THEN q ELSE ToLowerCase(q)
         IN ScanPage(i, items, searchText, searchQuery, options.entireWord, 0, <<>>)
            \o SearchPages(f, q, options, i + 1)

\* find(options)
Find(f, q, options) ==
    LET f1 == ClearHighlights(f)
    IN IF q = <<>> \/ IsBlank(q)
       THEN Dispatch([f1 EXCEPT !.query = <<>>, !.allMatches = <<>>,
                                !.selectedMatchIndex = -1],
                     [name |-> "updatefindmatchescount", current |-> 0, total |-> 0,
                      state |-> -1, pageNumber |-> 0])
       ELSE LET f2 == Dispatch([f1 EXCEPT !.query = q,
                                          !.highlightAll = options.highlightAll],
                               StateEvent(PENDING))
                f3 == [f2 EXCEPT !.allMatches = SearchPages(f2, q, options, 0)]
                f4 == IF Len(f3.allMatches) > 0
                      THEN Dispatch(
                             ScrollToSelectedMatch(HighlightMatches(
                               [f3 EXCEPT !.selectedMatchIndex =
                                   IF options.findPrevious THEN Len(f3.allMatches) - 1
                                                           ELSE 0])),
                             StateEvent(FOUND))
                      ELSE Dispatch([f3 EXCEPT !.selectedMatchIndex = -1],
                                    StateEvent(NOT_FOUND))
            IN Dispatch(f4, CountEvent(f4))

\* variant: findNext reports the wrap when it reaches the last match
FindNextOpWrapAtLast(f) ==
    IF Len(f.allMatches) = 0
    THEN f
    ELSE LET f1 == ScrollToSelectedMatch(HighlightMatches(
                     [f EXCEPT !.selectedMatchIndex = (@ + 1) % Len(f.allMatches)]))
             wrapped == f1.selectedMatchIndex = Len(f1.allMatches) - 1
             f2 == Dispatch(f1, StateEvent(IF wrapped THEN WRAPPED ELSE FOUND))
         IN Dispatch(f2, CountEvent(f2))

\* findNext()
FindNextOp(f) ==
    IF Len(f.allMatches) = 0
    THEN f
    ELSE LET f1 == ScrollToSelectedMatch(HighlightMatches(
                     [f EXCEPT !.selectedMatchIndex = (@ + 1) % Len(f.allMatches)]))
             wrapped == f1.selectedMatchIndex = 0
             f2 == Dispatch(f1, StateEvent(IF wrapped THEN WRAPPED ELSE FOUND))
         IN Dispatch(f2, CountEvent(f2))

\* findPrevious()
FindPreviousOp(f) ==
    IF Len(f.allMatches) = 0
    THEN f
    ELSE LET f1 == ScrollToSelectedMatch(HighlightMatches(
                     [f EXCEPT !.selectedMatchIndex =
                                  (@ - 1 + Len(f.allMatches)) % Len(f.allMatches)]))
             wrapped == f1.selectedMatchIndex = Len(f1.allMatches) - 1
             f2 == Dispatch(f1, StateEvent(IF wrapped THEN WRAPPED ELSE FOUND))
         IN Dispatch(f2, CountEvent(f2))

\* reset()
FindReset(f) ==
    [ClearHighlights(f) EXCEPT !.query = <<>>, !.allMatches = <<>>,
                               !.selectedMatchIndex = -1]

\* ---------------------------------------------------------------- actions
\* the text layer of page pg has been rendered: its spans and their texts are collected
RenderTextLayer(pg) ==
    /\ pg \in DOMAIN docText
    /\ textItems[pg] = <<>>
    /\ FCommit([FWorld EXCEPT !.textItems[pg] = docText[pg],
                              !.textDivs[pg] = [d \in DOMAIN docText[pg] |->
                                                  TextDiv(docText[pg][d])]],
               "renderTextLayer", pg)
    /\ UNCHANGED nexts

\* rendererActions.search(q)
Search(q) ==
    /\ FCommit(Find(FWorld, q, SearchOptions), "search", 0)
    /\ nexts' = 0

\* rendererActions.searchNext()
SearchNext ==
    /\ nexts < MaxNexts
    /\ FCommit(FindNextOp(FWorld), "searchNext", 0)
    /\ nexts' = IF nexts = -1 THEN -1 ELSE nexts + 1

\* rendererActions.searchPrevious()
SearchPrevious ==
    /\ FCommit(FindPreviousOp(FWorld), "searchPrevious", 0)
    /\ nexts' = -1

\* rendererActions.clearSearch()
ClearSearch ==
    /\ FCommit([FindReset(FWorld) EXCEPT !.searchCount = <<0, 0>>], "clearSearch", 0)
    /\ nexts' = -1

\* rendererActions.goToPage(pageNumber)
GoToPage(pageNumber) ==
    /\ FCommit(ViewerScrollToPage(FWorld, pageNumber), "goToPage", pageNumber)
    /\ UNCHANGED nexts

\* rendererActions.scrollToCoordinates(page, x, y)
ScrollToCoordinates(page, x, y) ==
    /\ FCommit(ViewerScrollToCoordinates(FWorld, page, x, y), "scrollToCoordinates", page)
    /\ UNCHANGED nexts

\* the timer of scrollToSelectedMatch fires: the selected highlight is scrolled into view;
\* onScreen tells whether the element lay within the visible bounds of the container
MatchScrollTimeout(onScreen) ==
    /\ matchScrollTimer
    /\ LET f == FWorld
           shown == \E pg \in DOMAIN f.textDivs : \E d \in DOMAIN f.textDivs[pg] :
                       \E k \in DOMAIN f.textDivs[pg][d] :
                          f.textDivs[pg][d][k].span # 0 /\ f.textDivs[pg][d][k].selected
       IN FCommit([f EXCEPT !.matchScrollTimer = FALSE,
                            !.scrolls = IF shown
                                        THEN Append(@, [kind |-> "element", page |-> 0,
                                                        x |-> 0, y |-> 0,
                                                        onScreen |-> onScreen])
                                        ELSE @],
                  "timer", 0)
    /\ UNCHANGED nexts

FindInit ==
    /\ CoreInit
    /\ LoaderInit
    /\ \E doc \in Documents : FindControllerInit(doc)
    /\ OverlayInit
    /\ PdfJsInit /\ PresentationInit

FindNext ==
    \/ \E pg \in 1..MaxFindPages : RenderTextLayer(pg)
    \/ \E q \in Queries : Search(q)
    \/ SearchNext
    \/ SearchPrevious
    \/ ClearSearch
    \/ \E n \in 0..(MaxFindPages + 1) : GoToPage(n)
    \/ \E n \in 0..(MaxFindPages + 1) : ScrollToCoordinates(n, 0, 0)
    \/ \E onScreen \in BOOLEAN : MatchScrollTimeout(onScreen)

\* loadPdf of another source completes: the page views and the FindController are new, and
\* nothing in loadPdf assigns viewerState.searchCurrent or searchTotal
Reload(doc) ==
    /\ reloads < MaxReloads
    /\ reloads' = reloads + 1
    /\ docText' = doc
    /\ textItems' = [p \in DOMAIN doc |-> <<>>]
    /\ textDivs' = [p \in DOMAIN doc |-> <<>>]
    /\ query' = <<>>
    /\ highlightAll' = TRUE
    /\ allMatches' = <<>>
    /\ selectedMatchIndex' = -1
    /\ highlightedElements' = <<>>
    /\ fEvents' = <<>>
    /\ scrolls' = <<>>
    /\ lastOp' = [name |-> "load", page |-> 0]
    /\ prevSel' = -1
    /\ nexts' = -1
    /\ UNCHANGED <<matchScrollTimer, searchCount, notFind>>

ReloadNext ==
    \/ \E pg \in 1..MaxFindPages : RenderTextLayer(pg)
    \/ \E q \in Queries : Search(q)
    \/ SearchNext
    \/ SearchPrevious
    \/ ClearSearch
    \/ \E doc \in Documents : Reload(doc)

\* the host searches a loaded document and loads another one
ReloadSpec == FindInit /\ [][ReloadNext]_vars

\* a loaded document, its text layers rendered page by page, driven by the host actions
FindSpec == FindInit /\ [][FindNext]_vars

\* a box is shown on a page, drawn over by the user and converted back by the host
OverlaySetup ==
    /\ CoreInit
    /\ LoaderInit
    /\ FindControllerInit(<<>>)
    /\ NewOverlay(PageSizes, OverlayScales, HostRotations, Boxes(BoxOrigins, BoxSides))
    /\ PdfJsInit /\ PresentationInit

OverlaySpec == OverlaySetup /\ [][OverlayNext]_vars

\* the scroll listener and its timer on a clock: setTimeout(..., 100) is due 100 ms after
\* the event that set it, and time does not pass a timer that is due
ScrollsSoFar == Cardinality({k \in DOMAIN timeline : timeline[k].ev = "scroll"})

TimedScroll(top) ==
    /\ listening
    /\ ScrollsSoFar < MaxScrolls
    /\ scrollTop' = top
    /\ scrollTimeout' = TRUE
    /\ timerDue' = now + SCROLL_DEBOUNCE
    /\ timeline' = Append(timeline, [ev |-> "scroll", at |-> now])
    /\ CommitCore(World)
    /\ UNCHANGED <<listening, sd, viewerError, nChanges, nFails, nStalls, now, loaderVars,
                   findVars, toolbarVars, overlayVars, pdfjsVars, presentationVars, hostVars>>

TimedScrollTimeout ==
    /\ scrollTimeout
    /\ now = timerDue
    /\ scrollTimeout' = FALSE
    /\ timerDue' = -1
    /\ timeline' = Append(timeline, [ev |-> "pass", at |-> now, live |-> listening])
    /\ CommitCore(Settle(UpdateVisiblePages(World, scrollTop)))
    /\ UNCHANGED <<scrollTop, listening, sd, viewerError, nChanges, nFails, nStalls, now,
                   loaderVars, findVars, toolbarVars, overlayVars, pdfjsVars,
                   presentationVars, hostVars>>

Tick ==
    /\ now < MaxTime
    /\ ~(scrollTimeout /\ now >= timerDue)
    /\ now' = IF scrollTimeout /\ timerDue < now + TickMs THEN timerDue
              ELSE IF now + TickMs > MaxTime THEN MaxTime ELSE now + TickMs
    /\ CommitCore(World)
    /\ UNCHANGED <<scrollTimeout, scrollTop, listening, sd, viewerError, nChanges, nFails,
                   nStalls, timerDue, timeline, loaderVars, findVars, toolbarVars,
                   overlayVars, pdfjsVars, presentationVars, hostVars>>

DebounceNext ==
    \/ SetDocument(1)
    \/ GetPageResolve
    \/ \E top \in ScrollTops : TimedScroll(top)
    \/ TimedScrollTimeout
    \/ Tick
    \/ Destroy
    \/ Settlements

DebounceSpec == Init /\ [][DebounceNext]_vars

\* the pointer is pressed on the layer of a 60 x 60 page at scale 1.0 and released anywhere
DrawSpec == Init /\ [][DrawNext]_vars

\* the singleton under getPdfJs and destroyPdfJs calls in any order
PdfJsSpec == Init /\ [][PdfJsNext]_vars

\* one PdfPresentationMode under the calls of its host, the window and the browser
PresentationSpec == Init /\ [][PresentationNext]_vars

\* the presentation of one loaded document of 1..MaxPmPages pages
NavigationInit ==
    /\ CoreInit /\ LoaderInit /\ FindControllerInit(<<>>) /\ OverlayInit /\ PdfJsInit
    /\ \E n \in 1..MaxPmPages : PresentationLoaded(n)

NavigationSpec == NavigationInit /\ [][NavigationNext]_vars

\* ======================================================================
\* Properties
\* ======================================================================
RasterJobs == UNION {{<<o, k>> : k \in LiveJobs(slots[o])} : o \in DOMAIN slots}
Attached == {pages[i] : i \in DOMAIN pages}

\* C1: in every reachable state of one PDFViewerCore at most one page slot has a raster
\* job in flight, whatever the interleaving of scroll events, setDocument, scale changes
\* and rotation changes.
C1_SingleRasterJob == Cardinality({o \in DOMAIN slots : LiveJobs(slots[o]) # {}}) <= 1

\* C2: a FINISHED slot of the scheduler shows a raster produced with the scheduler's
\* current scale and rotation, whatever the state of the slot was when the scale or the
\* rotation changed.
C2_NoStaleTransform ==
    \A o \in Attached :
        slots[o].renderingState = FINISHED => slots[o].drawn = <<currentScale, currentRotation>>

\* C3: with scroll events as the only input after the document is attached, at most one
\* raster job is active at any time, and it is the one the render queue is waiting for.
C3_ScrollSingleInFlight ==
    /\ Cardinality(RasterJobs) <= 1
    /\ \A o \in DOMAIN slots : \A k \in LiveJobs(slots[o]) :
           isRendering /\ awaiting = <<o, slots[o].draws[k].tag>>

C3_Witness ==
    /\ sd.pc = "done"
    /\ scrollTop # 0
    /\ lastPass # <<>>
    /\ renderingQueue # <<>>
    /\ RasterJobs # {}

LegalChange(a, b) ==
    \/ a = b
    \/ <<a, b>> \in {<<INITIAL, RUNNING>>, <<RUNNING, FINISHED>>,
                      <<RUNNING, INITIAL>>, <<FINISHED, INITIAL>>}

LegalPath(path) == \A k \in 1..(Len(path) - 1) : LegalChange(path[k], path[k + 1])

\* C4: renderingState of a slot changes only along INITIAL->RUNNING, RUNNING->FINISHED
\* and a reset to INITIAL from RUNNING or FINISHED: every assignment made to it in a step
\* continues such a path from the value it had before the step.
C4_StateTransitions ==
    [][\A o \in DOMAIN slots :
          LegalPath(<<slots[o].renderingState>> \o slots'[o].stateLog)]_vars

\* C5: within one slot at most one draw() is in progress and at most one raster job is
\* live; draw() on a slot that is RUNNING or FINISHED, or that has no page, changes
\* nothing; and the task handle of a slot with a live job refers to that job, so that a
\* re-render cancels it before it requests a new one.
C5_OneDrawPerSlot ==
    /\ \A o \in DOMAIN slots :
          /\ Len(slots[o].draws) <= 1
          /\ Cardinality(LiveJobs(slots[o])) <= 1
          /\ slots[o].renderingState \in {RUNNING, FINISHED} => PageDraw(slots[o]) = slots[o]
          /\ \A k \in LiveJobs(slots[o]) : slots[o].renderTask = slots[o].draws[k].tag
    /\ PageDraw(NewPageView(1, currentScale, currentRotation))
          = NewPageView(1, currentScale, currentRotation)

C5_Witness ==
    \E o \in Attached :
        /\ nChanges > 0
        /\ slots[o].textLayerRendered
        /\ slots[o].renderingState = RUNNING
        /\ LiveJobs(slots[o]) # {}

\* C6: when the live raster job of a slot is cancelled, draw() returns without logging an
\* error and the slot is INITIAL after the step; and no slot is RUNNING without a draw()
\* in progress.
C6_CancelIsSilent ==
    \A o \in DOMAIN slots :
        /\ slots[o].cancelled =>
              /\ slots[o].renderingState = INITIAL
              /\ ~slots[o].erred
              /\ slots[o].draws = <<>>
        /\ slots[o].renderingState = RUNNING => slots[o].draws # <<>>

C6_Witness ==
    \E o \in DOMAIN slots : slots[o].cancelled /\ slots[o].destroyed

\* C7: a raster failure other than a cancellation leaves the slot INITIAL and the viewer
\* without a document-level error; a non-empty render queue is always being processed;
\* and a visibility pass leaves every INITIAL slot of its range in the queue.
C7_RenderFailureIsLocal ==
    /\ \A o \in DOMAIN slots :
          slots[o].erred =>
              /\ slots[o].renderingState = INITIAL
              /\ LiveJobs(slots[o]) = {}
              /\ viewerError = NoError
    /\ renderingQueue # <<>> =>
          /\ isRendering
          /\ awaiting # <<>>
          /\ HasDraw(slots[awaiting[1]], awaiting[2])
    /\ lastPass # <<>> =>
          \A i \in lastPass[1]..lastPass[2] :
              slots[pages[i + 1]].renderingState = INITIAL => InSeq(renderingQueue, i)

C7_Witness ==
    /\ nFails > 0
    /\ Len(pages) = MaxPages
    /\ ~isRendering
    /\ \A o \in Attached : slots[o].renderingState = FINISHED

StalledElsewhere(j) ==
    \E o \in DOMAIN slots : o # j /\ \E k \in DOMAIN slots[o].draws : slots[o].draws[k].stalled

Waiting(j) ==
    /\ j \in DOMAIN pages
    /\ pages[j] = j
    /\ slots[j].renderingState = INITIAL
    /\ InSeq(renderingQueue, j - 1)

Rendered(j) == j \in DOMAIN slots /\ slots[j].renderingState = FINISHED

\* a promise of the engine is still due to settle
Settling ==
    \E o \in DOMAIN slots : \E k \in DOMAIN slots[o].draws : ~slots[o].draws[k].stalled

\* nothing is left to run but new input: no getPage and no settlement is due and no timer
\* is pending
Quiescent == sd.pc # "getPage" /\ ~scrollTimeout /\ ~Settling

\* C8: a raster job that never completes blocks only its own slot: once every other job
\* has settled and every timer has fired, no other slot is left INITIAL in the queue.
C8_StallBlocksOnlyItsSlot ==
    \A j \in 1..MaxPages : (Quiescent /\ StalledElsewhere(j)) => ~Waiting(j)

\* C9: once setDocument has completed for a document of N pages the scheduler holds
\* exactly N slots, numbered 1..N in order, whatever zoom, rotation and scroll follow.
C9_SlotCount ==
    (sd.pc = "done" /\ pdfDocument # 0) =>
        /\ Len(pages) = pdfDocument
        /\ pdfDocument = sd.n
        /\ \A i \in DOMAIN pages : slots[pages[i]].id = i

C9_Witness ==
    /\ sd.pc = "done"
    /\ pdfDocument = MaxPages
    /\ nChanges > 0
    /\ scrollTop # 0
    /\ Len(pages) = MaxPages

Settled == loads # <<>> /\ \A l \in DOMAIN loads : loads[l].pc \in {"done", "failed"}
LiveViewers == {v \in DOMAIN viewers : viewers[v].alive}

\* C10: once all loads have settled and the most recently requested one has succeeded,
\* exactly one scheduler is live and attached to the scroll container, it is the
\* registered one, it belongs to the most recently requested source, and every other
\* scheduler created on the way has been destroyed.
C10_OneLiveScheduler ==
    (Settled /\ loads[Len(loads)].pc = "done") =>
        /\ viewer # 0
        /\ LiveViewers = {viewer}
        /\ viewers[viewer].inContainer
        /\ viewers[viewer].src = Len(loads)

FailedLoads == {l \in DOMAIN loads : loads[l].pc = "failed"}

\* C16: when the loads have settled and the most recently requested one has failed, the
\* viewer state holds the failure message, loading is false, no scheduler and no find
\* controller is live, and the error callback has been invoked once per failed load.
C16_LoadFailureIsTerminal ==
    (Settled /\ loads[Len(loads)].pc = "failed") =>
        /\ viewerError # NoError
        /\ ~loading
        /\ viewer = 0
        /\ LiveViewers = {}
        /\ findController = 0
        /\ errorCalls = Cardinality(FailedLoads)

\* the positions at which q occurs in text, case folded, counted from 0
Occurrences(text, q) ==
    {k \in 0..(Len(text) - Len(q)) :
        SubSeq(ToLowerCase(text), k + 1, k + Len(q)) = ToLowerCase(q)}

NonOverlapping(text, q) ==
    \A k1, k2 \in Occurrences(text, q) : k1 < k2 => k2 - k1 >= Len(q)

RECURSIVE OccurrencesFrom(_, _)
OccurrencesFrom(pg, q) ==
    IF pg > Len(docText) THEN 0
    ELSE Cardinality(Occurrences(Join(docText[pg]), q)) + OccurrencesFrom(pg + 1, q)

\* C11: after a case-insensitive search for a query whose occurrences do not overlap,
\* total is the number of occurrences of the query in the text of all pages of the
\* document, whichever pages have been rendered.
C11_TotalCountsAllPages ==
    (/\ lastOp.name = "search"
     /\ query # <<>>
     /\ \A pg \in DOMAIN docText : NonOverlapping(Join(docText[pg]), query))
        => Len(allMatches) = OccurrencesFrom(1, query)

EventsNamed(n) == {fEvents[k] : k \in {j \in DOMAIN fEvents : fEvents[j].name = n}}
StatesReported == {e.state : e \in EventsNamed("updatefindcontrolstate")}

\* position of a match in the text of its page
RECURSIVE LengthBefore(_, _)
LengthBefore(items, d) == IF d = 0 THEN 0 ELSE Len(items[d]) + LengthBefore(items, d - 1)
StartOf(m) == LengthBefore(textItems[m.pageIndex + 1], m.divIndex) + m.offset

\* C12: after a search that found k >= 1 matches, the n-th findNext in a row selects match
\* (n mod k) + 1 and reports WRAPPED exactly when that is the first match, so that k calls
\* lead back to the first match with WRAPPED on the k-th call only; the matches are in
\* page order, then offset order; findPrevious from the first match selects the last one
\* and reports WRAPPED.
C12_NavigationIsCircular ==
    LET k == Len(allMatches)
    IN /\ (lastOp.name = "search" /\ k >= 1) => selectedMatchIndex = 0
       /\ (lastOp.name = "searchNext" /\ k >= 1 /\ nexts >= 1) =>
             /\ selectedMatchIndex = nexts % k
             /\ StatesReported = {IF nexts % k = 0 THEN WRAPPED ELSE FOUND}
       /\ \A i, j \in DOMAIN allMatches :
             i < j => \/ allMatches[i].pageIndex < allMatches[j].pageIndex
                      \/ /\ allMatches[i].pageIndex = allMatches[j].pageIndex
                         /\ StartOf(allMatches[i]) < StartOf(allMatches[j])
       /\ (lastOp.name = "searchPrevious" /\ k >= 1 /\ prevSel = 0) =>
             /\ selectedMatchIndex = k - 1
             /\ StatesReported = {WRAPPED}

C12_Witness ==
    /\ lastOp.name = "searchNext"
    /\ Len(allMatches) = MaxNexts
    /\ nexts = MaxNexts
    /\ selectedMatchIndex = 0
    /\ allMatches[1].pageIndex # allMatches[MaxNexts].pageIndex

\* C13: 0 <= current <= total; current is 0 exactly when there is no match; current is 1
\* right after a search that found matches; and every updatefindmatchescount event
\* carries the current and total of the controller.
C13_CountersAreConsistent ==
    /\ 0 <= selectedMatchIndex + 1
    /\ selectedMatchIndex + 1 <= Len(allMatches)
    /\ selectedMatchIndex + 1 = 0 <=> Len(allMatches) = 0
    /\ (lastOp.name = "search" /\ Len(allMatches) > 0) => selectedMatchIndex + 1 = 1
    /\ \A e \in EventsNamed("updatefindmatchescount") :
          e.current = selectedMatchIndex + 1 /\ e.total = Len(allMatches)

C13_Witness ==
    /\ lastOp.name = "search"
    /\ Len(allMatches) >= 2
    /\ selectedMatchIndex = 0
    /\ EventsNamed("updatefindmatchescount") # {}

Highlights ==
    {<<pg, d, k>> \in UNION {UNION {{<<pg, d, k>> : k \in DOMAIN textDivs[pg][d]} :
                                     d \in DOMAIN textDivs[pg]} : pg \in DOMAIN textDivs} :
        textDivs[pg][d][k].span # 0}

\* C14: a search for an empty or blank query, and clearSearch, leave the counters at
\* {0, 0}, no highlight span in any text div and the text of every div as the text layer
\* rendered it, whatever search and navigation came before.
C14_ClearRestoresText ==
    (lastOp.name = "clearSearch" \/ (lastOp.name = "search" /\ query = <<>>)) =>
        /\ selectedMatchIndex = -1
        /\ allMatches = <<>>
        /\ searchCount = <<0, 0>>
        /\ Highlights = {}
        /\ highlightedElements = <<>>
        /\ \A pg \in DOMAIN textDivs : \A d \in DOMAIN textDivs[pg] :
              TextContent(textDivs[pg][d]) = textItems[pg][d]

C14_Witness ==
    /\ lastOp.name = "search"
    /\ query = <<>>
    /\ prevSel >= 1
    /\ \E pg \in DOMAIN textItems : Len(textItems[pg]) >= 2

OutOfRange ==
    \/ lastOp.name \in {"goToPage", "scrollToCoordinates"}
       /\ (lastOp.page < 1 \/ lastOp.page > pagesCount)
    \/ lastOp.name \in {"searchNext", "searchPrevious"} /\ allMatches = <<>>

\* C15: scrollToPage and scrollToCoordinates with a page below 1 or above the page count,
\* and findNext and findPrevious with no match, change no state, dispatch no event and
\* scroll nothing.
C15_OutOfRangeIsIgnored ==
    [][OutOfRange' =>
          /\ UNCHANGED <<textItems, textDivs, query, highlightAll, allMatches,
                         selectedMatchIndex, highlightedElements, matchScrollTimer,
                         searchCount, notFind>>
          /\ fEvents' = <<>>
          /\ scrolls' = <<>>]_vars

C15_Witness ==
    /\ lastOp.name = "goToPage"
    /\ lastOp.page = pagesCount + 1
    /\ pagesCount = MaxFindPages
    /\ allMatches # <<>>

\* C17: in every reachable state the scale of the scheduler lies in
\* [MIN_SCALE, MAX_SCALE], whatever initialScale the constructor was given and whatever
\* zoomIn, zoomOut and setScale calls followed.
C17_ScaleInRange == currentScale \in MIN_SCALE..MAX_SCALE

\* zoomIn at the maximum and zoomOut at the minimum change nothing and dispatch no event
ZoomAtLimitIsNoOp ==
    (\/ lastCall.name = "zoomIn" /\ lastCall.scale = MAX_SCALE
     \/ lastCall.name = "zoomOut" /\ lastCall.scale = MIN_SCALE)
    => (currentScale = lastCall.scale /\ dispatched = <<>>)

ZoomAtLimit_Witness ==
    /\ lastCall.name = "zoomIn"
    /\ lastCall.scale = MAX_SCALE
    /\ pages # <<>>

C19_RoundTrip == stage = "converted" => converted = box

\* every box that was shown and drawn over is reported to onBoxDrawn
DragIsReported == stage = "drawn" => drawnBox # <<>>

Turned == viewport.width # Times(Num(pageSize[1]), viewport.scale)

\* the round trip holds on the pages whose viewport has the sides of the unrotated page,
\* for the boxes large enough to be reported
RoundTripUnturned ==
    (stage = "converted" /\ ~Turned) => converted = box

RoundTripUnturned_Witness ==
    /\ stage = "converted"
    /\ ~Turned
    /\ pageSize[1] # pageSize[2]
    /\ box.y # Num(0)

\* C20: the getPdfJs calls made with no destroyPdfJs in between start one initialisation
\* between them, which creates one Worker, and the first getPdfJs after a destroyPdfJs
\* starts a new initialisation, which creates a new Worker.
FirstOfEra(c) == \A d \in 1..(c - 1) : calls[d].era # calls[c].era

C20_OneWorkerPerGeneration ==
    /\ \A e \in 0..destroys :
          /\ Cardinality({k \in DOMAIN inits : inits[k].era = e}) <= 1
          /\ Cardinality({w \in DOMAIN workers :
                            inits[workers[w].by].era = e}) <= 1
    /\ \A c \in DOMAIN calls :
          (calls[c].era > 0 /\ FirstOfEra(c)) => calls[c].started

\* at most one Worker is alive
LiveWorkers == {w \in DOMAIN workers : ~workers[w].terminated}

OneLiveWorker == Cardinality(LiveWorkers) <= 1

\* C21: after updateBoundingBoxes(B) every FINISHED slot p displays exactly the boxes of B
\* whose page is p, whatever the state of the slot was when the update arrived.
C21_BoxesAreCurrent ==
    \A o \in Attached :
        slots[o].renderingState = FINISHED =>
            slots[o].shown = {b \in boundingBoxes : b[1] = slots[o].id}

C21_Witness ==
    /\ nBoxUpdates = MaxBoxUpdates
    /\ boundingBoxes = {<<1, "b">>, <<2, "c">>}
    /\ Len(pages) = 2
    /\ \A o \in Attached : slots[o].renderingState = FINISHED /\ slots[o].shown # {}
    /\ nChanges > 0

AtMost(a, b) == ~Greater(a, b)

\* C22: every box reported through onBoxDrawn is a percentage rectangle of the page,
\* 0 <= x_min < x_max <= 100 and 0 <= y_min < y_max <= 100, wherever the button is
\* pressed and released.
C22_DrawnBoxIsPercentage ==
    drawnBox # <<>> =>
        /\ AtMost(Num(0), drawnBox.x_min)
        /\ Greater(drawnBox.x_max, drawnBox.x_min)
        /\ AtMost(drawnBox.x_max, Num(100))
        /\ AtMost(Num(0), drawnBox.y_min)
        /\ Greater(drawnBox.y_max, drawnBox.y_min)
        /\ AtMost(drawnBox.y_max, Num(100))

\* a drag of at most 5 pixels in width or height reports no box, and no box is reported
\* while draw mode is disabled
SmallDragsAreDropped ==
    (mouse # <<>> /\ mouse.name = "mouseup" /\ drawnBox # <<>>) =>
        /\ drawMode
        /\ Abs(mouse.x * start[1][2] - start[1][1]) > 5 * start[1][2]
        /\ Abs(mouse.y * start[2][2] - start[2][1]) > 5 * start[2][2]

PrerenderRange(p) ==
    LET n == Cardinality(DOMAIN p.states)
        lo == IF p.first - 2 > 0 THEN p.first - 2 ELSE 0
        hi == IF p.last + 2 < n - 1 THEN p.last + 2 ELSE n - 1
    IN lo..hi

C24_PassWhileDrainingOnlyAdds ==
    \A k \in DOMAIN passLog :
        LET p == passLog[k]
        IN (p.ran /\ p.draining /\ p.loop # <<>>) =>
              /\ p.resumed = p.loop
              /\ \A i \in DOMAIN p.before : p.queued[i] = p.before[i]
              /\ slots[p.loop[1]].stateLog = <<>>
              /\ ~slots[p.loop[1]].cancelled
              /\ isRendering

C24_Witness ==
    /\ Len(passLog) = 1
    /\ passLog[1].ran
    /\ passLog[1].draining
    /\ passLog[1].loop # <<>>
    /\ Len(passLog[1].queued) > Len(passLog[1].before)

\* a call of the timer comes 100 ms after a scroll event with no event in between, a scroll
\* event that follows another without a call in between came at most 100 ms after it, and
\* after the last scroll event the timer is pending while the listener is attached
OnePassPerBurst ==
    /\ \A k \in DOMAIN timeline :
          timeline[k].ev = "pass" =>
              /\ k > 1
              /\ timeline[k - 1].ev = "scroll"
              /\ timeline[k].at = timeline[k - 1].at + SCROLL_DEBOUNCE
    /\ \A k \in DOMAIN timeline :
          (k > 1 /\ timeline[k].ev = "scroll" /\ timeline[k - 1].ev = "scroll") =>
              timeline[k].at <= timeline[k - 1].at + SCROLL_DEBOUNCE
    /\ (timeline # <<>> /\ timeline[Len(timeline)].ev = "scroll") =>
          /\ scrollTimeout
          /\ timerDue = timeline[Len(timeline)].at + SCROLL_DEBOUNCE
          /\ now <= timerDue

OnePassPerBurst_Witness ==
    /\ Len(timeline) = 5
    /\ timeline[1].ev = "scroll" /\ timeline[2].ev = "scroll" /\ timeline[3].ev = "pass"
    /\ timeline[2].at > timeline[1].at
    /\ timeline[5].ev = "pass"
    /\ passLog # <<>> /\ passLog[1].ran

SlotFields ==
    [o \in DOMAIN slots |->
       [slots[o] EXCEPT !.stateLog = <<>>, !.cancelled = FALSE, !.erred = FALSE]]

\* C26: a scale or rotation assignment with a changed value updates every existing slot
\* before the event is dispatched and before the visibility pass runs, and triggers exactly
\* one pass; an assignment whose clamped or normalised value equals the current one
\* updates no slot, dispatches no event and triggers no pass.
C26_SetterOrder ==
    [][nCalls' # nCalls =>
         IF currentScale' = currentScale /\ currentRotation' = currentRotation
         THEN /\ SlotFields' = SlotFields
              /\ \A o \in DOMAIN slots' : slots'[o].stateLog = <<>>
              /\ dispatched' = <<>>
              /\ passLog' = <<>>
              /\ renderingQueue' = renderingQueue
         ELSE /\ Len(dispatched') = 1
              /\ dispatched'[1].name =
                    (IF currentScale' # currentScale THEN "scalechanged"
                                                     ELSE "rotationchanged")
              /\ dispatched'[1].value =
                    (IF currentScale' # currentScale THEN currentScale'
                                                     ELSE currentRotation')
              /\ dispatched'[1].seen \subseteq {<<currentScale', currentRotation'>>}
              /\ Len(passLog') = 1
              /\ passLog'[1].ran
              /\ passLog'[1].events = 1
              /\ passLog'[1].viewports \subseteq {<<currentScale', currentRotation'>>}]_vars

C26_Witness ==
    /\ lastCall.name = "zoomIn"
    /\ Len(dispatched) = 1
    /\ dispatched[1].seen = {<<currentScale, currentRotation>>}
    /\ Len(passLog) = 1
    /\ \E o \in Attached : InSeq(slots[o].stateLog, RUNNING)

\* C27: once the text fragments of a slot have been built, scale and rotation updates and
\* re-renders leave textDivs and textContentItemsStr as they are until the slot is reset or
\* destroyed, and the two lists always have the same length.
C27_TextFragmentsStable ==
    [][\A o \in DOMAIN slots' :
          /\ Len(slots'[o].textDivs) = Len(slots'[o].textContentItemsStr)
          /\ (o \in DOMAIN slots /\ slots[o].textLayerRendered
                 /\ slots'[o].textLayerRendered) =>
                /\ slots'[o].textDivs = slots[o].textDivs
                /\ slots'[o].textContentItemsStr = slots[o].textContentItemsStr]_vars

C27_Witness ==
    /\ nChanges > 0
    /\ \E o \in Attached :
          /\ slots[o].renderingState = FINISHED
          /\ slots[o].textLayerRendered
          /\ Len(slots[o].textDivs) > 1
          /\ slots[o].textContentItemsStr = PageTextItems(slots[o].id)
          /\ slots[o].drawn = <<currentScale, currentRotation>>
          /\ slots[o].scale # DEFAULT_SCALE

\* C28: in every reachable state a FINISHED slot has its text layer built: a slot whose
\* text extraction failed during draw() does not reach FINISHED.
C28_FinishedHasText ==
    \A o \in DOMAIN slots :
        slots[o].renderingState = FINISHED => slots[o].textLayerRendered

SearchedOrStepped == lastOp.name \in {"search", "searchNext", "searchPrevious"}

\* C29: after a search with highlightAll that found k >= 1 matches, and after every
\* findNext and findPrevious, exactly k highlight elements are attached to the text layers,
\* one per match, and exactly one of them is selected, the one of the match at index
\* current; also when several matches fall inside the same text fragment.
C29_OneHighlightPerMatch ==
    (SearchedOrStepped /\ highlightAll /\ allMatches # <<>>) =>
        /\ Cardinality(Highlights) = Len(allMatches)
        /\ \A i \in DOMAIN allMatches :
              \E h \in Highlights :
                 /\ h[1] = allMatches[i].pageIndex + 1
                 /\ h[2] = allMatches[i].divIndex + 1
                 /\ textDivs[h[1]][h[2]][h[3]].span = i
                 /\ textDivs[h[1]][h[2]][h[3]].selected = (i = selectedMatchIndex + 1)

\* the characters of a page before text item d (counted from 0)
RECURSIVE CharsBefore(_, _)
CharsBefore(items, d) ==
    IF d = 0 THEN 0 ELSE Len(items[d]) + CharsBefore(items, d - 1)

\* the occurrence match m stands for, cut out of the concatenated text of its page
Occurrence(m) ==
    LET items == textItems[m.pageIndex + 1]
        flat == CharsBefore(items, m.divIndex) + m.offset
    IN SubSeq(Join(items), flat + 1, flat + m.length)

\* C30: for every match the highlighted characters are exactly the `length` characters of
\* the concatenated page text that start at the flat start offset of the match, also when
\* the occurrence begins in one fragment and ends in a later one.
C30_HighlightCoversOccurrence ==
    (SearchedOrStepped /\ highlightAll) =>
        \A h \in Highlights :
            LET node == textDivs[h[1]][h[2]][h[3]]
                m == allMatches[node.span]
            IN /\ Len(Occurrence(m)) = m.length
               /\ ToLowerCase(Occurrence(m)) = ToLowerCase(query)
               /\ node.t = Occurrence(m)

\* a match that lies inside one text fragment is highlighted whole
InsideOneFragment(m) ==
    m.offset + m.length <= Len(textItems[m.pageIndex + 1][m.divIndex + 1])

HighlightCoversMatchInFragment ==
    (SearchedOrStepped /\ highlightAll) =>
        \A h \in Highlights :
            LET node == textDivs[h[1]][h[2]][h[3]]
                m == allMatches[node.span]
            IN InsideOneFragment(m) => node.t = Occurrence(m)

\* selecting a match asks the scheduler to scroll to the page of the match
SelectionScrollsToPage ==
    (lastOp.name \in {"search", "searchNext", "searchPrevious"} /\ allMatches # <<>>) =>
        /\ Len(scrolls) = 1
        /\ scrolls[1].kind = "page"
        /\ scrolls[1].page = allMatches[selectedMatchIndex + 1].pageIndex + 1

\* C31: the highlighted element of the selected match is scrolled into view only if it is
\* not already within the visible bounds: no element scroll is issued for a match that is
\* on screen.
C31_NoScrollWhenOnScreen ==
    \A k \in DOMAIN scrolls : scrolls[k].kind = "element" => ~scrolls[k].onScreen

\* a destroyed slot has no raster job in flight and no text data
DestroyedSlotIsEmpty ==
    \A o \in DOMAIN slots :
        slots[o].destroyed =>
            /\ LiveJobs(slots[o]) = {}
            /\ slots[o].textDivs = <<>>
            /\ slots[o].textContentItemsStr = <<>>

\* C32: after destroy() of a slot no raster job of the slot is in flight, its text data is
\* empty and the slot never becomes FINISHED (and so never dispatches pagerendered)
\* afterwards, whichever await of draw() was pending when destroy arrived.
C32_DestroyedSlotStaysDown ==
    \A o \in DOMAIN slots :
        slots[o].destroyed =>
            /\ LiveJobs(slots[o]) = {}
            /\ slots[o].textDivs = <<>>
            /\ slots[o].textContentItemsStr = <<>>
            /\ slots[o].renderingState # FINISHED
            /\ ~InSeq(slots[o].stateLog, FINISHED)

\* the moves of the presentation state
PresentationMoves ==
    {<<UNKNOWN, CHANGING>>, <<NORMAL, CHANGING>>, <<CHANGING, FULLSCREEN>>,
     <<CHANGING, NORMAL>>, <<FULLSCREEN, NORMAL>>}

\* C33: the presentation state moves only UNKNOWN/NORMAL -> CHANGING (by an accepted
\* request), CHANGING -> FULLSCREEN, CHANGING -> NORMAL and FULLSCREEN -> NORMAL, under any
\* interleaving of request, exit, destroy and fullscreenchange events; request() while
\* CHANGING or FULLSCREEN, with no document or with zero pages returns false, creates no
\* container and changes no state; at most one presentation container exists.
C33_PresentationMoves ==
    [][/\ pmState' # pmState => <<pmState, pmState'>> \in PresentationMoves
       /\ (pmState' # pmState /\ pmState' = CHANGING) =>
             (pmLast'.op = "request" /\ pmLast'.result)
       /\ (pmState' # pmState /\ pmState' = FULLSCREEN) =>
             (pmLast'.op = "fullscreenchange" /\ fullscreenElement' # 0)
       /\ (pmLast'.op = "request" /\ created' = created) =>
             /\ ~pmLast'.result
             /\ pmState' = pmState
             /\ container' = container
             /\ hostElements' = hostElements
       /\ (pmLast'.op = "request"
             /\ (pmState \in {CHANGING, FULLSCREEN} \/ pmDocument = 0 \/ totalPages = 0)) =>
             (~pmLast'.result /\ created' = created)
       /\ Cardinality(hostElements') <= 1]_vars

C33_Witness ==
    /\ pmLast.op = "request"
    /\ ~pmLast.result
    /\ pmState = FULLSCREEN
    /\ fullscreenElement = container
    /\ hostElements = {container}
    /\ canvasPage = currentPageNumber

\* no renderCurrentPage call of the presentation is in flight
RendersSettled == ~renderingPage /\ pmRender = <<>>

\* C35: in fullscreen presentation, once all page renders have settled the page drawn on
\* the presentation canvas is currentPageNumber, for every sequence of nextPage,
\* previousPage, goToPage and resize, also when they are called during a render.
C35_CanvasShowsCurrentPage ==
    (pmState = FULLSCREEN /\ container # 0 /\ fullscreenElement = container
       /\ RendersSettled) =>
        canvasPage = currentPageNumber

\* a render that is not in flight leaves no lock behind, and the canvas shows a page that
\* was the current page when its render began
CanvasShowsSomePage ==
    /\ renderingPage = (pmRender # <<>>)
    /\ canvasPage \in 0..MaxPmPages

\* nextPage on the last page, previousPage on the first page and goToPage out of range
\* return false and change nothing; a call that returns true moves within 1..totalPages
RefusedNavigationChangesNothing ==
    [][pmLast'.op \in {"nextPage", "previousPage", "goToPage"} =>
         /\ pmLast'.result => currentPageNumber' \in 1..totalPages
         /\ (pmLast'.result /\ pmLast'.op = "nextPage") =>
               currentPageNumber' = currentPageNumber + 1
         /\ (pmLast'.result /\ pmLast'.op = "previousPage") =>
               currentPageNumber' = currentPageNumber - 1
         /\ ~pmLast'.result =>
               /\ currentPageNumber' = currentPageNumber
               /\ pmRender' = pmRender
               /\ renderingPage' = renderingPage
               /\ canvasPage' = canvasPage
               /\ pmState' = pmState
         /\ (pmLast'.op = "nextPage" /\ currentPageNumber >= totalPages) => ~pmLast'.result
         /\ (pmLast'.op = "previousPage" /\ currentPageNumber <= 1) => ~pmLast'.result]_vars

\* C36: whenever a document with at least one page is set, 1 <= currentPageNumber <=
\* totalPages, after any sequence of setDocument, setCurrentPage, nextPage, previousPage
\* and goToPage.
C36_PageInRange ==
    totalPages >= 1 => (1 <= currentPageNumber /\ currentPageNumber <= totalPages)

\* the slots a visibility pass at the current scroll position looks at
ExpandedVisibleRange ==
    LET visible == GetVisiblePages(World, scrollTop)
        startPage == IF visible.first - PAGES_TO_PRERENDER > 0
                     THEN visible.first - PAGES_TO_PRERENDER ELSE 0
        endPage == IF visible.last + PAGES_TO_PRERENDER < Len(pages) - 1
                   THEN visible.last + PAGES_TO_PRERENDER ELSE Len(pages) - 1
    IN {pages[i + 1] : i \in startPage..endPage}

\* C34: when no raster job has failed and nothing is left to run (every job has settled,
\* every timer has fired, no scale, rotation or document change is under way), every slot
\* of the expanded visible range is FINISHED, the queue is empty and isRendering is false.
C34_QueueDrains ==
    (Quiescent /\ nFails = 0 /\ pdfDocument # 0 /\ pages # <<>>) =>
        /\ renderingQueue = <<>>
        /\ ~isRendering
        /\ awaiting = <<>>
        /\ \A o \in ExpandedVisibleRange : slots[o].renderingState = FINISHED

\* the steps of draw() still to settle, and four for each queue entry: a step of the engine
\* that changes a slot or the queue, with no input of the user, leaves less work
RECURSIVE SumOver(_, _)
SumOver(f, S) ==
    IF S = {} THEN 0
    ELSE LET x == CHOOSE y \in S : TRUE IN f[x] + SumOver(f, S \ {x})

StepsLeft(pc) == IF pc = "raster" THEN 3 ELSE IF pc = "text" THEN 2 ELSE 1

WorkLeft ==
    SumOver([o \in DOMAIN slots |->
               SumOver([k \in DOMAIN slots[o].draws |-> StepsLeft(slots[o].draws[k].pc)],
                       DOMAIN slots[o].draws)], DOMAIN slots)
      + 4 * Len(renderingQueue)

SettlementsReduceWork ==
    [][(/\ scrollTop' = scrollTop /\ scrollTimeout' = scrollTimeout /\ sd' = sd
        /\ nChanges' = nChanges /\ nFails' = nFails /\ listening' = listening
        /\ (SlotFields' # SlotFields \/ renderingQueue' # renderingQueue
              \/ isRendering' # isRendering))
         => WorkLeft' < WorkLeft]_vars

C34_Witness ==
    /\ Quiescent
    /\ nFails = 0
    /\ nChanges > 0
    /\ Len(pages) = MaxPages
    /\ scrollTop > 0
    /\ ExpandedVisibleRange = Attached
    /\ \A o \in Attached : slots[o].renderingState = FINISHED /\ slots[o].textLayerRendered

\* a mouse-up in draw mode ends the drag: isDrawing is false and currentBox is null
MouseUpInDrawModeEndsDrag ==
    (mouse # <<>> /\ mouse.name = "mouseup" /\ drawMode) => (~isDrawing /\ ~currentBox)

\* C37: after a mouse-up isDrawing is false and no temporary drawing box remains attached
\* to the layer, also when draw mode was switched off between mouse-down and mouse-up.
C37_DragEndsCleanly ==
    (mouse # <<>> /\ mouse.name = "mouseup") => (~isDrawing /\ tempBoxes = 0)

\* C38: at any time at most one non-terminated Worker created by getPdfJs exists, the one
\* the singleton refers to, under every interleaving of getPdfJs and destroyPdfJs calls,
\* also when destroyPdfJs is called while an initialisation is pending.
C38_AtMostOneLiveWorker ==
    /\ Cardinality(LiveWorkers) <= 1
    /\ \A w \in LiveWorkers : w = rawWorker

\* before the first destroyPdfJs call at most one Worker is created
OneWorkerWithoutDestroy == destroys = 0 => Cardinality(DOMAIN workers) <= 1

\* C39: after every completed operation viewerState.searchCurrent and searchTotal equal
\* the matchesCount of the active find controller, also after the document is replaced by
\* a new load that follows a search with matches.
C39_CountersFollowController ==
    searchCount = <<selectedMatchIndex + 1, Len(allMatches)>>

\* as long as the find controller is the one the search ran on, the counters follow it
CountersFollowUntilReload == reloads = 0 => C39_CountersFollowController

TypeOK ==
    /\ selectedMatchIndex \in -1..(Len(allMatches) - 1)
    /\ pdfDocument \in 0..MaxPages
    /\ isRendering \in BOOLEAN
    /\ \A o \in DOMAIN slots : slots[o].renderingState \in {INITIAL, RUNNING, FINISHED}
====
